---- MODULE Spec2Model ----
(***************************************************************************)
(* Analysis request lifecycle of family_emotions_app: the Analysis         *)
(* aggregate (domain/analysis/aggregates), the Redis rate limiter          *)
(* (infrastructure/cache/rate_limiter.py), the SQLAlchemy analysis         *)
(* repository and session (infrastructure/persistence) and the request     *)
(* handler that drives them (presentation/telegram/handlers/analysis.py).  *)
(***************************************************************************)
EXTENDS Integers, Sequences, FiniteSets, TLC

(* ---------------------------------------------------------------------- *)
(* Bounds of the model                                                     *)
(* ---------------------------------------------------------------------- *)
\* latest value of the clock (datetime.utcnow) the model explores
MaxNow == 2
\* number of method calls made on the aggregate under test (SpecRecord)
MaxCalls == 5
\* number of analysis requests the handlers receive (Spec)
MaxRequests == 2
\* settings.max_requests_per_user_per_day / _per_hour, scaled down
DailyLimit == 2
HourlyLimit == 1

(* ---------------------------------------------------------------------- *)
(* Optional values: None is <<>>, a present value x is <<x>>               *)
(* ---------------------------------------------------------------------- *)
None == <<>>
Some(x) == <<x>>

VARIABLES
    now,        \* datetime.utcnow(), in whole ticks
    record,     \* SpecRecord: the Analysis aggregate under test (None or Some)
    lastCall,   \* SpecRecord: the last method call, its outcome and the status before it
    ncall,      \* SpecRecord: number of method calls made so far
    redis,      \* the counter store: key -> None | Some([val, ttl])
    db,         \* committed rows of table analyses: id -> None | Some(row)
    sess,       \* per worker: the row its open session has flushed, uncommitted
    pc,         \* per worker: the await its request is suspended at
    req,        \* per worker: the command of its current/last request
    analysis,   \* per worker: the Analysis aggregate request_analysis holds
    outcome,    \* per worker: how its last request ended
    trace,      \* per worker: the steps its current/last request has performed
    charge,     \* per worker: what its request has added to the counters
    nreq,       \* number of requests received so far
    svc,        \* SpecService: the analyze_situation call and its adapter loop
    parsed,     \* SpecParse: a raw response and what _parse_response made of it
    lim,        \* SpecLimiter: the last call made on the rate limiter
    repo        \* SpecStore: the last call made on the analysis repository

recVars == <<record, lastCall, ncall>>
sysVars == <<redis, db, sess, pc, req, analysis, outcome, trace, charge, nreq>>
stVars == <<repo>>
auxVars == <<svc, parsed, lim, stVars>>
vars == <<now, record, lastCall, ncall,
          redis, db, sess, pc, req, analysis, outcome, trace, charge, nreq,
          svc, parsed, lim, stVars>>

(* ---------------------------------------------------------------------- *)
(* domain/analysis/value_objects: SituationDescription                     *)
(* A text is abstracted to its length and the length of its strip().       *)
(* ---------------------------------------------------------------------- *)
MIN_DESCRIPTION_LENGTH == 10
MAX_DESCRIPTION_LENGTH == 2000

\* __post_init__ raises ValueError iff this is FALSE
SituationDescription_ok(text) ==
    /\ text.len > 0
    /\ ~(text.stripped < MIN_DESCRIPTION_LENGTH)
    /\ ~(text.len > MAX_DESCRIPTION_LENGTH)

(* ---------------------------------------------------------------------- *)
(* domain/analysis/aggregates: AIRecommendation, Analysis                  *)
(* confidence_score is kept in hundredths (0.8 is 80)                      *)
(* ---------------------------------------------------------------------- *)
AnalysisStatus == {"pending", "processing", "completed", "failed"}

\* AIRecommendation.__post_init__: raises ValueError unless 0 <= score <= 1
AIRecommendation_ok(rec) ==
    0 <= rec.confidence_score /\ rec.confidence_score <= 100

\* Analysis.create: a fresh aggregate in PENDING, or ValueError from
\* SituationDescription
create(id, user_id, text, t) ==
    IF ~SituationDescription_ok(text)
    THEN [raised |-> TRUE, a |-> None]
    ELSE [raised |-> FALSE,
          a |-> Some([id |-> id, user_id |-> user_id, situation |-> text,
                      status |-> "pending", recommendation |-> None,
                      created_at |-> t, completed_at |-> None,
                      error_message |-> None])]

start_processing_any(a) ==
    [raised |-> FALSE, a |-> [a EXCEPT !.status = "processing"]]

\* Analysis.start_processing
start_processing(a) ==
    IF a.status # "pending"
    THEN [raised |-> TRUE, a |-> a]
    ELSE [raised |-> FALSE, a |-> [a EXCEPT !.status = "processing"]]

complete_any(a, recommendation, t) ==
    [raised |-> FALSE,
     a |-> [a EXCEPT !.status = "completed",
                     !.recommendation = Some(recommendation),
                     !.completed_at = Some(t)]]

\* Analysis.complete
complete(a, recommendation, t) ==
    IF a.status # "processing"
    THEN [raised |-> TRUE, a |-> a]
    ELSE [raised |-> FALSE,
          a |-> [a EXCEPT !.status = "completed",
                          !.recommendation = Some(recommendation),
                          !.completed_at = Some(t)]]

\* Analysis.fail: no guard on the current status
fail(a, error_message, t) ==
    [raised |-> FALSE,
     a |-> [a EXCEPT !.status = "failed",
                     !.error_message = Some(error_message),
                     !.completed_at = Some(t)]]

(* ---------------------------------------------------------------------- *)
(* Inputs                                                                  *)
(* ---------------------------------------------------------------------- *)
Users == {"u1", "u2"}

\* situation texts: <len, stripped len> around both length limits
Texts ==
    { [len |-> 9, stripped |-> 9],
      [len |-> 10, stripped |-> 10],
      [len |-> 12, stripped |-> 9],
      [len |-> 2000, stripped |-> 2000],
      [len |-> 2001, stripped |-> 2001] }

\* situation texts that begin or end with white space
PaddedTexts ==
    { [len |-> 11, stripped |-> 10],
      [len |-> 2001, stripped |-> 2000] }

\* recommendations an analyzer can hand to complete()
Recommendations ==
    { [hidden_meaning |-> "h1", immediate_actions |-> "i1",
       long_term_recommendations |-> "l1", what_not_to_do |-> "n1",
       confidence_score |-> 80],
      [hidden_meaning |-> "h2", immediate_actions |-> "i2",
       long_term_recommendations |-> "l2", what_not_to_do |-> "n2",
       confidence_score |-> 50] }

\* recommendations built from an analyzer reply with empty members and a
\* confidence of 0: AIRecommendation accepts both
SparseRecommendations ==
    { [hidden_meaning |-> "h3", immediate_actions |-> "",
       long_term_recommendations |-> "", what_not_to_do |-> "",
       confidence_score |-> 0],
      [hidden_meaning |-> "", immediate_actions |-> "i4",
       long_term_recommendations |-> "l4", what_not_to_do |-> "n4",
       confidence_score |-> 50] }

ErrorMessages == {"e1", "e2"}

(* ---------------------------------------------------------------------- *)
(* infrastructure/cache/rate_limiter.py: RedisRateLimiter                  *)
(* Time is counted in hours; a counter key names the user and the UTC      *)
(* calendar day or hour.                                                   *)
(* ---------------------------------------------------------------------- *)
HoursPerDay == 24

\* the clock counts the hours since 22:00 UTC of day 0, so that a run of a
\* few hours passes midnight
StartHour == HoursPerDay - 2

\* now.date()
Day(t) == (StartHour + t) \div HoursPerDay

Days == 0 .. Day(MaxNow)
Hours == 0 .. MaxNow

RedisKeys ==
    { <<"daily", u, d>> : u \in Users, d \in Days }
        \cup { <<"hourly", u, h>> : u \in Users, h \in Hours }

\* f"rate_limit:daily:{user_id_str}:{now.date()}"
daily_key_undated(u, t) == <<"daily", u, 0>>

daily_key(u, t) == <<"daily", u, Day(t)>>
\* f"rate_limit:hourly:{user_id_str}:{now.strftime('%Y%m%d%H')}"
hourly_key(u, t) == <<"hourly", u, t>>

\* redis GET: the stored value, None for a missing key
GET(r, k) == IF r[k] = None THEN None ELSE Some(r[k][1].val)

GET_result_swallowed(r, k, store_ok) ==
    [raised |-> FALSE, value |-> IF store_ok THEN GET(r, k) ELSE None]

\* `await self._redis.get(key)` in check_limit, which has no exception
\* handling: the connection error of an unreachable store leaves the call
GET_result(r, k, store_ok) ==
    [raised |-> ~store_ok, value |-> IF store_ok THEN GET(r, k) ELSE None]

INCR_twice(r, k) ==
    IF r[k] = None
    THEN [r EXCEPT ![k] = Some([val |-> 2, ttl |-> None])]
    ELSE [r EXCEPT ![k] = Some([@[1] EXCEPT !.val = @ + 2])]

\* a write of 1 over whatever the key holds
INCR_from_zero(r, k) ==
    IF r[k] = None
    THEN [r EXCEPT ![k] = Some([val |-> 1, ttl |-> None])]
    ELSE [r EXCEPT ![k] = Some([@[1] EXCEPT !.val = 1])]

\* redis INCR: one atomic round trip; a missing key counts from 0
INCR(r, k) ==
    IF r[k] = None
    THEN [r EXCEPT ![k] = Some([val |-> 1, ttl |-> None])]
    ELSE [r EXCEPT ![k] = Some([@[1] EXCEPT !.val = @ + 1])]

\* redis EXPIRE: the key now expires d hours after t
EXPIRE(r, k, d, t) ==
    IF r[k] = None
    THEN r
    ELSE [r EXCEPT ![k] = Some([@[1] EXCEPT !.ttl = Some(t + d)])]

\* the number a counter holds (0 for a missing key)
Count(r, k) == IF r[k] = None THEN 0 ELSE r[k][1].val

over_limit_strict(count, limit) == count # None /\ count[1] > limit

\* check_limit, lines 27 and 33: `if count and int(count) >= limit`
over_limit(count, limit) == count # None /\ count[1] >= limit

Max(a, b) == IF a > b THEN a ELSE b

check_limit_counting(r, u, t) ==
    [value |->
        /\ Count(INCR(r, daily_key(u, t)), daily_key(u, t)) <= DailyLimit
        /\ Count(INCR(r, hourly_key(u, t)), hourly_key(u, t)) <= HourlyLimit,
     store |-> INCR(INCR(r, daily_key(u, t)), hourly_key(u, t))]

\* check_limit run without interruption: what it returns, and the store its
\* two GETs leave behind
check_limit(r, u, t) ==
    [value |->
        /\ ~over_limit(GET(r, daily_key(u, t)), DailyLimit)
        /\ ~over_limit(GET(r, hourly_key(u, t)), HourlyLimit),
     store |-> r]

\* increment_usage run without interruption: the store after lines 45-51
increment_usage(r, u, t) ==
    EXPIRE(INCR(EXPIRE(INCR(r, daily_key(u, t)),
                       daily_key(u, t), HoursPerDay, t),
                hourly_key(u, t)),
           hourly_key(u, t), 1, t)

get_remaining_requests_unclamped(r, u, t) ==
    [value |->
        [daily_remaining |-> DailyLimit - Count(r, daily_key(u, t)),
         hourly_remaining |-> HourlyLimit - Count(r, hourly_key(u, t)),
         daily_limit |-> DailyLimit,
         hourly_limit |-> HourlyLimit],
     store |-> r]

\* get_remaining_requests: the dictionary it returns, and the store its two
\* GETs leave behind
get_remaining_requests(r, u, t) ==
    [value |->
        [daily_remaining |->
            Max(0, DailyLimit - Count(r, daily_key(u, t))),
         hourly_remaining |->
            Max(0, HourlyLimit - Count(r, hourly_key(u, t))),
         daily_limit |-> DailyLimit,
         hourly_limit |-> HourlyLimit],
     store |-> r]

\* the counter store at time t: a key whose expiry has passed is gone
Purge(r, t) ==
    [k \in DOMAIN r |->
        IF r[k] # None /\ r[k][1].ttl # None /\ r[k][1].ttl[1] <= t
        THEN None
        ELSE r[k]]

(* ---------------------------------------------------------------------- *)
(* infrastructure/persistence: AnalysisModel rows, the repository and the  *)
(* session                                                                 *)
(* ---------------------------------------------------------------------- *)
Ids == 1 .. MaxRequests

\* the columns save() fills from analysis.recommendation
WithRecommendation(row, a) ==
    IF a.recommendation # None
    THEN [row EXCEPT
            !.hidden_meaning = Some(a.recommendation[1].hidden_meaning),
            !.immediate_actions = Some(a.recommendation[1].immediate_actions),
            !.long_term_recommendations =
                Some(a.recommendation[1].long_term_recommendations),
            !.what_not_to_do = Some(a.recommendation[1].what_not_to_do),
            !.confidence_score = Some(a.recommendation[1].confidence_score)]
    ELSE row

save_insert_only(existing, a) ==
    IF existing # None
    THEN existing[1]
    ELSE WithRecommendation(
            [id |-> a.id, user_id |-> a.user_id,
             situation_description |-> a.situation,
             status |-> a.status,
             hidden_meaning |-> None, immediate_actions |-> None,
             long_term_recommendations |-> None, what_not_to_do |-> None,
             confidence_score |-> None,
             error_message |-> a.error_message,
             created_at |-> a.created_at,
             completed_at |-> a.completed_at], a)

\* SqlAlchemyAnalysisRepository.save: the row the session holds after the
\* flush, given the row the SELECT by id found (None if there is none)
save(existing, a) ==
    IF existing # None
    THEN WithRecommendation(
            [existing[1] EXCEPT !.status = a.status,
                                !.completed_at = a.completed_at,
                                !.error_message = a.error_message], a)
    ELSE WithRecommendation(
            [id |-> a.id, user_id |-> a.user_id,
             situation_description |-> a.situation,
             status |-> a.status,
             hidden_meaning |-> None, immediate_actions |-> None,
             long_term_recommendations |-> None, what_not_to_do |-> None,
             confidence_score |-> None,
             error_message |-> a.error_message,
             created_at |-> a.created_at,
             completed_at |-> a.completed_at], a)

save_result_swallowed(existing, a, store_ok) ==
    IF store_ok
    THEN [raised |-> FALSE, row |-> Some(save(existing, a))]
    ELSE [raised |-> FALSE, row |-> None]

\* SqlAlchemyAnalysisRepository.save as its caller sees it: with the database
\* reachable it returns, the row flushed; otherwise the exception of
\* execute/flush leaves save, nothing written
save_result(existing, a, store_ok) ==
    IF store_ok
    THEN [raised |-> FALSE, row |-> Some(save(existing, a))]
    ELSE [raised |-> TRUE, row |-> None]

\* what a SELECT by id sees inside worker w's session: its own flushed row,
\* else the committed one
select_by_id(w, id) == IF sess[w] # None THEN sess[w] ELSE db[id]

\* SqlAlchemyAnalysisRepository._to_domain
to_domain(row) ==
    [id |-> row.id, user_id |-> row.user_id,
     situation |-> row.situation_description,
     status |-> row.status,
     recommendation |->
        IF row.hidden_meaning # None /\ row.hidden_meaning[1] # ""
        THEN Some([hidden_meaning |-> row.hidden_meaning[1],
                   immediate_actions |->
                       IF row.immediate_actions = None THEN ""
                       ELSE row.immediate_actions[1],
                   long_term_recommendations |->
                       IF row.long_term_recommendations = None THEN ""
                       ELSE row.long_term_recommendations[1],
                   what_not_to_do |->
                       IF row.what_not_to_do = None THEN ""
                       ELSE row.what_not_to_do[1],
                   confidence_score |->
                       IF row.confidence_score = None THEN 0
                       ELSE row.confidence_score[1]])
        ELSE None,
     created_at |-> row.created_at,
     completed_at |-> row.completed_at,
     error_message |-> row.error_message]

\* SqlAlchemyAnalysisRepository.get_by_id in a fresh session: committed rows
get_by_id(id) == IF db[id] = None THEN None ELSE Some(to_domain(db[id][1]))

\* Database.session, line 39: leaving the block normally commits
session_commit(d, s) == IF s = None THEN d ELSE [d EXCEPT ![s[1].id] = s]

\* Database.session, lines 40-42: an exception rolls the transaction back
session_rollback(d, s) == d

(* ---------------------------------------------------------------------- *)
(* infrastructure/security/validators.py and external_services             *)
(* ---------------------------------------------------------------------- *)
Min(a, b) == IF a < b THEN a ELSE b

\* InputValidator.sanitize_text(message.text.strip(), max_length): the text
\* is cut to max_length and stripped
sanitize_text(text, max_length) ==
    [len |-> Min(text.stripped, max_length),
     stripped |-> Min(text.stripped, max_length)]

\* what the Claude API call of ClaudeAnalyzer can come back with: an error,
\* or content that parses to these fields
ApiResponses ==
    { [kind |-> "error"],
      [kind |-> "content",
       analysis |-> [hidden_meaning |-> "h1", immediate_actions |-> "i1",
                     long_term_recommendations |-> "l1",
                     what_not_to_do |-> "n1", confidence_score |-> 80]],
      [kind |-> "content",
       analysis |-> [hidden_meaning |-> "h2", immediate_actions |-> "i2",
                     long_term_recommendations |-> "l2",
                     what_not_to_do |-> "n2", confidence_score |-> 150]] }

\* ClaudeAnalyzer.analyze_situation: the AIRecommendation, or RuntimeError
\* for anything raised inside the try block
analyze_situation(resp) ==
    IF resp.kind = "error"
    THEN [raised |-> TRUE, value |-> None, error |-> "Claude API error"]
    ELSE IF ~AIRecommendation_ok(resp.analysis)
    THEN [raised |-> TRUE, value |-> None, error |-> "Claude API error"]
    ELSE [raised |-> FALSE, value |-> Some(resp.analysis), error |-> ""]

(* ---------------------------------------------------------------------- *)
(* infrastructure/claude/adapter.py: ClaudeAdapter._parse_response         *)
(* A raw response is a sequence of tokens: an opening brace, a closing     *)
(* brace, a piece of prose without braces, or the members of one JSON      *)
(* object (brace-free), given as the map from the six keys to their value  *)
(* (None for a key that is not there).                                     *)
(* ---------------------------------------------------------------------- *)
\* longest run of braces and prose before and after the body of a response
MaxPad == 2

EmptyObject ==
    [hidden_meaning |-> None, immediate_actions |-> None,
     long_term_recommendations |-> None, what_not_to_do |-> None,
     emotional_tone |-> None, confidence_score |-> None]

LB == [t |-> "{", c |-> EmptyObject]
RB == [t |-> "}", c |-> EmptyObject]
Prose == [t |-> "p", c |-> EmptyObject]
Members(c) == [t |-> "members", c |-> c]

FullObject ==
    [hidden_meaning |-> Some("h"), immediate_actions |-> Some("i"),
     long_term_recommendations |-> Some("l"), what_not_to_do |-> Some("n"),
     emotional_tone |-> None, confidence_score |-> None]

\* the member lists the service answers with: the four texts, all there or
\* one of them left out, with or without a tone and a confidence
Contents ==
    { [base EXCEPT !.emotional_tone = tone, !.confidence_score = cs] :
        base \in { FullObject,
                   [FullObject EXCEPT !.hidden_meaning = None],
                   [FullObject EXCEPT !.immediate_actions = None],
                   [FullObject EXCEPT !.long_term_recommendations = None],
                   [FullObject EXCEPT !.what_not_to_do = None] },
        tone \in {None, Some("positive"), Some("urgent"), Some("bogus")},
        cs \in {None, Some(90)} }

RECURSIVE SeqsUpTo(_, _)
\* all sequences over S of length at most n
SeqsUpTo(S, n) ==
    IF n = 0 THEN {<<>>}
    ELSE LET shorter == SeqsUpTo(S, n - 1) IN
         shorter \cup { Append(q, x) : q \in shorter, x \in S }

Pads == SeqsUpTo({LB, RB, Prose}, MaxPad)

\* message.content[0].text of _call_claude is a pad, a body and a pad
Bodies ==
    {<<>>} \cup { <<LB, Members(c), RB>> : c \in Contents }
           \cup { <<LB, Members(c)>> : c \in Contents }

\* str.find: 0-based index of the first token t of response, -1 if none
find(response, t) ==
    IF \E i \in 1 .. Len(response) : response[i].t = t
    THEN (CHOOSE i \in 1 .. Len(response) :
            /\ response[i].t = t
            /\ \A j \in 1 .. (i - 1) : response[j].t # t) - 1
    ELSE -1

\* str.rfind: 0-based index of the last token t of response, -1 if none
rfind(response, t) ==
    IF \E i \in 1 .. Len(response) : response[i].t = t
    THEN (CHOOSE i \in 1 .. Len(response) :
            /\ response[i].t = t
            /\ \A j \in (i + 1) .. Len(response) : response[j].t # t) - 1
    ELSE -1

\* response[a:b] of Python, a and b 0-based and not negative
Slice(response, a, b) == SubSeq(response, a + 1, Min(b, Len(response)))

\* json.loads: the object a text denotes; raises for a text that is not
\* exactly one JSON value
json_loads(text) ==
    IF Len(text) = 2 /\ text[1].t = "{" /\ text[2].t = "}"
    THEN [raised |-> FALSE, value |-> EmptyObject]
    ELSE IF /\ Len(text) = 3
            /\ text[1].t = "{"
            /\ text[2].t = "members"
            /\ text[3].t = "}"
    THEN [raised |-> FALSE, value |-> text[2].c]
    ELSE [raised |-> TRUE, value |-> EmptyObject]

\* lines 152-158
required_fields(result) ==
    <<result.hidden_meaning, result.immediate_actions,
      result.long_term_recommendations, result.what_not_to_do,
      result.emotional_tone>>

valid_tones_short == {"positive", "neutral"}

\* line 169
valid_tones == {"positive", "neutral", "concerning", "urgent"}

\* line 166, in hundredths
DefaultConfidence == 80

\* lines 179-197: the default response on a parse error
FallbackResponse ==
    [hidden_meaning |-> Some("fallback_h"),
     immediate_actions |-> Some("fallback_i"),
     long_term_recommendations |-> Some("fallback_l"),
     what_not_to_do |-> Some("fallback_n"),
     emotional_tone |-> Some("neutral"),
     confidence_score |-> Some(50)]

\* lines 141-173: the body of the try block
parse_try(response) ==
    LET start_idx == find(response, "{")
        end_idx == rfind(response, "}") + 1
        loaded == json_loads(Slice(response, start_idx, end_idx))
        result == loaded.value
    IN  IF start_idx = -1 \/ end_idx = 0
        THEN [raised |-> TRUE, value |-> EmptyObject]
        ELSE IF loaded.raised
        THEN [raised |-> TRUE, value |-> EmptyObject]
        ELSE IF \E i \in 1 .. Len(required_fields(result)) :
                    required_fields(result)[i] = None
        THEN [raised |-> TRUE, value |-> EmptyObject]
        ELSE [raised |-> FALSE,
              value |->
                [result EXCEPT
                   !.confidence_score =
                       IF @ = None THEN Some(DefaultConfidence) ELSE @,
                   !.emotional_tone =
                       IF @[1] \notin valid_tones THEN Some("neutral") ELSE @]]

parse_response_raising(response) == parse_try(response)

\* _parse_response: whatever the try block raises is logged and answered
\* with the default response
parse_response(response) ==
    IF parse_try(response).raised
    THEN [raised |-> FALSE, value |-> FallbackResponse]
    ELSE parse_try(response)

(* ---------------------------------------------------------------------- *)
(* infrastructure/claude/adapter.py: ClaudeAdapter.analyze_situation, and  *)
(* application/services/analysis_service.py: AnalysisService               *)
(* ---------------------------------------------------------------------- *)
\* largest settings.claude_retry_attempts the model explores
MaxRetry == 3

\* what user_repository.get(command.user_id) can return, with whether
\* command.child_id is one of the user's children
UserCases ==
    { None,
      Some([onboarding_completed |-> FALSE, has_child |-> TRUE]),
      Some([onboarding_completed |-> TRUE, has_child |-> FALSE]),
      Some([onboarding_completed |-> TRUE, has_child |-> TRUE]) }

Situation_ok_unchecked(text) == TRUE

\* Situation.create: raises InvalidSituationException iff this is FALSE
Situation_ok(text) ==
    /\ ~(text.len < MIN_DESCRIPTION_LENGTH)
    /\ ~(text.len > MAX_DESCRIPTION_LENGTH)

\* Situation.create: the aggregate with the description stripped, or
\* InvalidSituationException
Situation_create(text) ==
    IF ~Situation_ok(text)
    THEN [raised |-> TRUE, situation |-> None]
    ELSE [raised |-> FALSE,
          situation |-> Some([description |-> text.stripped,
                              analysis_result |-> None])]

AnalysisResult_ok_unchecked(confidence_score) == TRUE

\* AnalysisResult.__post_init__: raises ValueError iff this is FALSE
AnalysisResult_ok(confidence_score) ==
    0 <= confidence_score /\ confidence_score <= 100

apply_analysis_overwriting(situation, result, t) ==
    IF ~AnalysisResult_ok(result.confidence_score[1])
    THEN [raised |-> "ValueError", situation |-> situation]
    ELSE [raised |-> "",
          situation |->
              [situation EXCEPT
                 !.analysis_result = Some([result EXCEPT !.analyzed_at = Some(t)]),
                 !.analyzed_at = Some(t),
                 !.events = Append(@, [emotional_tone |-> result.emotional_tone,
                                       confidence_score |->
                                           result.confidence_score])]]

\* Situation.apply_analysis at time t: InvalidSituationException when a result
\* is already held, ValueError of AnalysisResult for a confidence outside
\* [0, 1]; otherwise the result, analyzed_at and a SituationAnalyzed event
apply_analysis(situation, result, t) ==
    IF situation.analysis_result # None
    THEN [raised |-> "InvalidSituation", situation |-> situation]
    ELSE IF ~AnalysisResult_ok(result.confidence_score[1])
    THEN [raised |-> "ValueError", situation |-> situation]
    ELSE [raised |-> "",
          situation |->
              [situation EXCEPT
                 !.analysis_result = Some([result EXCEPT !.analyzed_at = Some(t)]),
                 !.analyzed_at = Some(t),
                 !.events = Append(@, [emotional_tone |-> result.emotional_tone,
                                       confidence_score |->
                                           result.confidence_score])]]

\* Situation.collect_events: the pending events, and the situation without
\* them
collect_events(situation) ==
    [events |-> situation.events,
     situation |-> [situation EXCEPT !.events = <<>>]]

\* the texts _call_claude can return
ServiceResponses ==
    { <<LB, Members([FullObject EXCEPT !.emotional_tone = Some("urgent"),
                                        !.confidence_score = Some(90)]), RB>>,
      <<LB, Members([FullObject EXCEPT !.emotional_tone = Some("bogus"),
                                        !.confidence_score = Some(150)]), RB>>,
      <<LB, Members([FullObject EXCEPT !.emotional_tone = Some("positive"),
                                        !.confidence_score = Some(-10)]), RB>>,
      <<Prose>>,
      <<>> }

\* how one `await asyncio.wait_for(self._call_claude(prompt), timeout)` ends:
\* with a text, with asyncio.TimeoutError, or with another exception (code)
AttemptOutcomes ==
    { [kind |-> "text", text |-> r, code |-> 0] : r \in ServiceResponses }
        \cup { [kind |-> "timeout", text |-> <<>>, code |-> 0] }
        \cup { [kind |-> "error", text |-> <<>>, code |-> e] : e \in {1, 2} }

\* line 38: `for attempt in range(self.retry_attempts)` has an iteration
in_range(attempt, n) == attempt < n

next_attempt_same(attempt) == attempt

\* line 38: the loop variable of the next iteration
next_attempt(attempt) == attempt + 1

last_attempt_never(attempt, n) == FALSE

\* lines 51 and 60: `if attempt == self.retry_attempts - 1`
last_attempt(attempt, n) == attempt = n - 1

\* line 62: asyncio.sleep(2 ** attempt)
backoff(attempt) == 2 ^ attempt

Event(ev, arg) == [ev |-> ev, arg |-> arg]

\* what the adapter call has come to: still running ("none"), returned a
\* dictionary, returned None (the loop ran out), or raised (0 is
\* asyncio.TimeoutError, otherwise the exception's code)
NoGateway == [kind |-> "none", value |-> EmptyObject, error |-> 0]

NoResult == [kind |-> "none", error |-> ""]

NoService ==
    [pc |-> "idle", n |-> 0, user |-> None, text |-> [len |-> 0, stripped |-> 0],
     attempt |-> 0, log |-> <<>>, response |-> <<>>, gw |-> NoGateway,
     situation |-> None,
     result |-> NoResult, saved |-> None]

\* longest event log of one adapter call
MaxLog == 3 * MaxRetry + 1

Service(next) == /\ svc' = next
                 /\ UNCHANGED <<now, recVars, sysVars, parsed, lim, stVars>>

analyze_situation_begin_unverified ==
    /\ svc.pc = "idle"
    /\ \E user \in UserCases, text \in Texts :
         LET cmd == [svc EXCEPT !.user = user, !.text = text] IN
         IF user = None
         THEN Service([cmd EXCEPT !.pc = "done",
                         !.result = [kind |-> "raised", error |-> "UserNotFound"]])
         ELSE IF ~Situation_ok(text)
         THEN Service([cmd EXCEPT !.pc = "done",
                         !.result = [kind |-> "raised",
                                     error |-> "InvalidSituation"]])
         ELSE Service([cmd EXCEPT !.pc = "attempt", !.attempt = 0,
                         !.situation =
                             Some([description |-> text.stripped,
                                   analysis_result |-> None])])

\* analysis_service.py lines 52-72: the user, onboarding and child checks and
\* Situation.create; then the adapter is called and builds its prompt
analyze_situation_begin ==
    /\ svc.pc = "idle"
    /\ \E user \in UserCases, text \in Texts :
         LET cmd == [svc EXCEPT !.user = user, !.text = text] IN
         IF user = None
         THEN Service([cmd EXCEPT !.pc = "done",
                         !.result = [kind |-> "raised", error |-> "UserNotFound"]])
         ELSE IF ~user[1].onboarding_completed
         THEN Service([cmd EXCEPT !.pc = "done",
                         !.result = [kind |-> "raised",
                                     error |-> "OnboardingNotCompleted"]])
         ELSE IF ~user[1].has_child
         THEN Service([cmd EXCEPT !.pc = "done",
                         !.result = [kind |-> "raised", error |-> "UserNotFound"]])
         ELSE IF ~Situation_ok(text)
         THEN Service([cmd EXCEPT !.pc = "done",
                         !.result = [kind |-> "raised",
                                     error |-> "InvalidSituation"]])
         ELSE Service([cmd EXCEPT !.pc = "attempt", !.attempt = 0,
                         !.situation =
                             Some([description |-> text.stripped,
                                   analysis_result |-> None])])

\* adapter.py lines 38-61: one iteration of the loop up to its next await, or
\* the end of the loop
call_claude ==
    /\ svc.pc = "attempt"
    /\ Len(svc.log) < MaxLog
    /\ IF ~in_range(svc.attempt, svc.n)
       THEN Service([svc EXCEPT !.pc = "apply",
                       !.gw = [NoGateway EXCEPT !.kind = "returned_none"]])
       ELSE \E o \in AttemptOutcomes :
            LET log == svc.log \o <<Event("call", svc.attempt),
                                    Event(o.kind, o.code)>> IN
            IF o.kind = "text"
            THEN Service([svc EXCEPT !.log = log, !.pc = "apply",
                            !.response = o.text,
                            !.gw = [kind |-> "returned",
                                    value |-> parse_response(o.text).value,
                                    error |-> 0]])
            ELSE IF last_attempt(svc.attempt, svc.n)
            THEN Service([svc EXCEPT !.log = log, !.pc = "apply",
                            !.gw = [NoGateway EXCEPT !.kind = "raised",
                                                     !.error = o.code]])
            ELSE IF o.kind = "timeout"
            THEN Service([svc EXCEPT !.log = log,
                            !.attempt = next_attempt(svc.attempt)])
            ELSE Service([svc EXCEPT !.log = log, !.pc = "sleep"])

\* adapter.py line 62: the backoff sleep, then the next iteration
backoff_sleep ==
    /\ svc.pc = "sleep"
    /\ Service([svc EXCEPT
                  !.log = Append(@, Event("sleep", backoff(svc.attempt))),
                  !.attempt = next_attempt(svc.attempt),
                  !.pc = "attempt"])

analyze_situation_apply_retrying ==
    /\ svc.pc = "apply"
    /\ IF \/ svc.gw.kind # "returned"
          \/ svc.gw.value.emotional_tone[1] \notin valid_tones
          \/ ~AnalysisResult_ok(svc.gw.value.confidence_score[1])
       THEN Service([svc EXCEPT !.pc = "attempt", !.attempt = 0,
                                !.gw = NoGateway])
       ELSE Service([svc EXCEPT !.pc = "save",
                       !.situation =
                           Some([@[1] EXCEPT !.analysis_result =
                                                 Some(svc.gw.value)])])

\* analysis_service.py lines 83-94: apply_analysis on the adapter's result;
\* any exception of the try block becomes AnalysisFailedException
analyze_situation_apply ==
    /\ svc.pc = "apply"
    /\ IF \/ svc.gw.kind # "returned"
          \/ svc.gw.value.emotional_tone[1] \notin valid_tones
          \/ ~AnalysisResult_ok(svc.gw.value.confidence_score[1])
       THEN Service([svc EXCEPT !.pc = "done",
                       !.result = [kind |-> "raised", error |-> "AnalysisFailed"]])
       ELSE Service([svc EXCEPT !.pc = "save",
                       !.situation =
                           Some([@[1] EXCEPT !.analysis_result =
                                                 Some(svc.gw.value)])])

\* analysis_service.py lines 97-99: save the situation, return its DTO
analyze_situation_save ==
    /\ svc.pc = "save"
    /\ Service([svc EXCEPT !.pc = "done", !.saved = svc.situation,
                  !.result = [kind |-> "returned", error |-> ""]])

\* analysis_service.py line 97 with the database unreachable: the error of
\* save leaves analyze_situation, which has no handler around it
analyze_situation_save_unavailable ==
    /\ svc.pc = "save"
    /\ Service([svc EXCEPT !.pc = "done",
                  !.result = [kind |-> "raised", error |-> "StoreUnavailable"]])

(* ---------------------------------------------------------------------- *)
(* The clock                                                               *)
(* ---------------------------------------------------------------------- *)
Tick ==
    /\ now < MaxNow
    /\ now' = now + 1
    /\ UNCHANGED <<auxVars, recVars, sysVars>>

(* ---------------------------------------------------------------------- *)
(* presentation/telegram/handlers/analysis.py: process_situation, and the  *)
(* request_analysis it awaits inside `async with database.session()`.      *)
(* Each action runs one worker from one await to the next.                 *)
(* ---------------------------------------------------------------------- *)
Workers == {"w1", "w2"}

\* the literals of process_situation, lines 120 and 122
HandlerMaxLength == 2000
HandlerMinLength == 10

NoRequest == [id |-> 0, user_id |-> "", situation |-> [len |-> 0, stripped |-> 0]]
NoCharge == [daily |-> 0, hourly |-> 0]

Raise(w, name) ==
    /\ outcome' = [outcome EXCEPT ![w] = name]
    /\ pc' = [pc EXCEPT ![w] = "rollback"]

Did(w, steps) == trace' = [trace EXCEPT ![w] = @ \o steps]

\* lines 117-163: sanitize and validate the message, open the session and
\* call request_analysis, which runs up to its first await
process_situation(w) ==
    /\ pc[w] = "idle"
    /\ nreq < MaxRequests
    /\ \E u \in Users, text \in Texts, sql \in BOOLEAN :
         LET situation == sanitize_text(text, HandlerMaxLength) IN
         /\ nreq' = nreq + 1
         /\ trace' = [trace EXCEPT ![w] = <<>>]
         /\ charge' = [charge EXCEPT ![w] = NoCharge]
         /\ analysis' = [analysis EXCEPT ![w] = None]
         /\ IF situation.len < HandlerMinLength \/ sql
            THEN /\ outcome' = [outcome EXCEPT ![w] = "rejected"]
                 /\ req' = [req EXCEPT ![w] = NoRequest]
                 /\ pc' = pc
            ELSE /\ outcome' = [outcome EXCEPT ![w] = "running"]
                 /\ req' = [req EXCEPT ![w] =
                              [id |-> nreq + 1, user_id |-> u,
                               situation |-> situation]]
                 /\ pc' = [pc EXCEPT ![w] = "check_daily"]
    /\ UNCHANGED <<auxVars, now, recVars, redis, db, sess>>

\* what the trace shows of a GET: nothing, or that the store did not answer
Unanswered(store_ok) == IF store_ok THEN <<>> ELSE <<"checkLimitFailed">>

\* step 1, first GET of check_limit (lines 25-28); an error of the counter
\* store leaves check_limit and request_analysis at once
check_limit_daily_step(w, store_ok) ==
    LET count == GET_result(redis, daily_key(req[w].user_id, now), store_ok) IN
    /\ pc[w] = "check_daily"
    /\ IF count.raised
       THEN /\ Did(w, Unanswered(store_ok))
            /\ Raise(w, "StoreUnavailable")
       ELSE IF over_limit(count.value, DailyLimit)
       THEN /\ Did(w, Unanswered(store_ok) \o <<"checkLimit">>)
            /\ Raise(w, "QuotaExceeded")
       ELSE /\ pc' = [pc EXCEPT ![w] = "check_hourly"]
            /\ Did(w, Unanswered(store_ok))
            /\ UNCHANGED outcome
    /\ UNCHANGED <<auxVars, now, recVars, redis, db, sess, req, analysis, charge, nreq>>

check_limit_daily(w) == check_limit_daily_step(w, TRUE)

\* step 1, second GET of check_limit (lines 31-36); step 2, create
check_limit_hourly_step(w, store_ok) ==
    LET count == GET_result(redis, hourly_key(req[w].user_id, now), store_ok) IN
    /\ pc[w] = "check_hourly"
    /\ IF count.raised
       THEN /\ Did(w, Unanswered(store_ok))
            /\ Raise(w, "StoreUnavailable")
            /\ UNCHANGED analysis
       ELSE IF over_limit(count.value, HourlyLimit)
       THEN /\ Did(w, Unanswered(store_ok) \o <<"checkLimit">>)
            /\ Raise(w, "QuotaExceeded")
            /\ UNCHANGED analysis
       ELSE LET res == create(req[w].id, req[w].user_id, req[w].situation, now) IN
            /\ Did(w, Unanswered(store_ok) \o <<"checkLimit", "create">>)
            /\ IF res.raised
               THEN /\ Raise(w, "InvalidSituation")
                    /\ UNCHANGED analysis
               ELSE /\ analysis' = [analysis EXCEPT ![w] = res.a]
                    /\ pc' = [pc EXCEPT ![w] = "save_pending"]
                    /\ UNCHANGED outcome
    /\ UNCHANGED <<auxVars, now, recVars, redis, db, sess, req, charge, nreq>>

check_limit_hourly(w) == check_limit_hourly_step(w, TRUE)

\* one `await repository.save(analysis)`
Saving(w, store_ok) ==
    save_result(select_by_id(w, req[w].id), analysis[w][1], store_ok)

Saved(w, store_ok) ==
    sess' = IF Saving(w, store_ok).row = None
            THEN sess
            ELSE [sess EXCEPT ![w] = Saving(w, store_ok).row]

\* step 6: a failed save propagates at once
Unavailable(w) ==
    /\ Did(w, <<"saveFailed">>)
    /\ Raise(w, "StoreUnavailable")

\* step 2, save; step 3, start_processing
save_pending_step(w, store_ok) ==
    /\ pc[w] = "save_pending"
    /\ Saved(w, store_ok)
    /\ IF Saving(w, store_ok).raised
       THEN /\ Unavailable(w)
            /\ UNCHANGED analysis
       ELSE /\ Did(w, <<"save", "startProcessing">>)
            /\ LET res == start_processing(analysis[w][1]) IN
                 IF res.raised
                 THEN /\ Raise(w, "IllegalStateTransition")
                      /\ UNCHANGED analysis
                 ELSE /\ analysis' = [analysis EXCEPT ![w] = Some(res.a)]
                      /\ pc' = [pc EXCEPT ![w] = "save_processing"]
                      /\ UNCHANGED outcome
    /\ UNCHANGED <<auxVars, now, recVars, redis, db, req, charge, nreq>>

save_pending(w) == save_pending_step(w, TRUE)

\* step 3, save
save_processing_step(w, store_ok) ==
    /\ pc[w] = "save_processing"
    /\ Saved(w, store_ok)
    /\ IF Saving(w, store_ok).raised
       THEN Unavailable(w)
       ELSE /\ Did(w, <<"save">>)
            /\ pc' = [pc EXCEPT ![w] = "analyze"]
            /\ UNCHANGED outcome
    /\ UNCHANGED <<auxVars, now, recVars, redis, db, req, analysis, charge, nreq>>

save_processing(w) == save_processing_step(w, TRUE)

\* step 4, the analyzer call, then complete; step 5, fail on an exception
analyze(w) ==
    /\ pc[w] = "analyze"
    /\ \E resp \in ApiResponses :
         LET r == analyze_situation(resp)
             c == complete(analysis[w][1], r.value[1], now)
         IN
         IF ~r.raised /\ ~c.raised
         THEN /\ analysis' = [analysis EXCEPT ![w] = Some(c.a)]
              /\ Did(w, <<"analyze", "complete">>)
              /\ pc' = [pc EXCEPT ![w] = "save_completed"]
         ELSE /\ analysis' = [analysis EXCEPT ![w] =
                    Some(fail(analysis[w][1],
                              IF r.raised THEN r.error ELSE "Cannot complete",
                              now).a)]
              /\ Did(w, <<"analyze", "fail">>)
              /\ pc' = [pc EXCEPT ![w] = "save_failed"]
    /\ UNCHANGED <<auxVars, now, recVars, redis, db, sess, req, outcome, charge, nreq>>

\* step 4, save of the completed record
save_completed_step(w, store_ok) ==
    /\ pc[w] = "save_completed"
    /\ Saved(w, store_ok)
    /\ IF Saving(w, store_ok).raised
       THEN Unavailable(w)
       ELSE /\ Did(w, <<"save">>)
            /\ pc' = [pc EXCEPT ![w] = "incr_daily"]
            /\ UNCHANGED outcome
    /\ UNCHANGED <<auxVars, now, recVars, redis, db, req, analysis, charge, nreq>>

save_completed(w) == save_completed_step(w, TRUE)

\* one await of increment_usage: the store goes from redis to r2
UsageStep(w, from, to, r2) ==
    /\ pc[w] = from
    /\ redis' = r2
    /\ charge' = [charge EXCEPT ![w] =
         [daily |-> @.daily
                      + Count(r2, daily_key(req[w].user_id, now))
                      - Count(redis, daily_key(req[w].user_id, now)),
          hourly |-> @.hourly
                      + Count(r2, hourly_key(req[w].user_id, now))
                      - Count(redis, hourly_key(req[w].user_id, now))]]
    /\ pc' = [pc EXCEPT ![w] = to]
    /\ trace' = [trace EXCEPT ![w] =
                   IF from = "incr_daily" THEN @ \o <<"incrementUsage">> ELSE @]
    /\ UNCHANGED <<auxVars, now, recVars, db, sess, req, analysis, outcome, nreq>>

\* increment_usage, line 45
incr_daily(w) ==
    UsageStep(w, "incr_daily", "expire_daily",
              INCR(redis, daily_key(req[w].user_id, now)))

\* increment_usage, line 46
expire_daily(w) ==
    UsageStep(w, "expire_daily", "incr_hourly",
              EXPIRE(redis, daily_key(req[w].user_id, now), HoursPerDay, now))

\* increment_usage, line 50
incr_hourly(w) ==
    UsageStep(w, "incr_hourly", "expire_hourly",
              INCR(redis, hourly_key(req[w].user_id, now)))

\* increment_usage, line 51; request_analysis then returns the record
expire_hourly(w) ==
    UsageStep(w, "expire_hourly", "commit",
              EXPIRE(redis, hourly_key(req[w].user_id, now), 1, now))

\* any await of increment_usage (lines 45-51) with the counter store
\* unreachable: the command changes nothing and its error leaves
\* increment_usage; it is an exception of step 4, so step 5 follows: fail with
\* the error's message, then the save of the failed record
increment_usage_unavailable(w) ==
    /\ pc[w] \in {"incr_daily", "expire_daily", "incr_hourly", "expire_hourly"}
    /\ Did(w, <<"incrementUsageFailed", "fail">>)
    /\ analysis' = [analysis EXCEPT ![w] =
                      Some(fail(analysis[w][1], "StoreUnavailable", now).a)]
    /\ pc' = [pc EXCEPT ![w] = "save_failed"]
    /\ UNCHANGED <<auxVars, now, recVars, redis, db, sess, req, outcome, charge,
                   nreq>>

\* either GET of check_limit with the counter store unreachable
check_limit_unavailable(w) ==
    \/ check_limit_daily_step(w, FALSE)
    \/ check_limit_hourly_step(w, FALSE)

\* step 5, save of the failed record, then AnalysisFailed is raised
save_failed_step(w, store_ok) ==
    /\ pc[w] = "save_failed"
    /\ Saved(w, store_ok)
    /\ IF Saving(w, store_ok).raised
       THEN Unavailable(w)
       ELSE /\ Did(w, <<"save">>)
            /\ Raise(w, "AnalysisFailed")
    /\ UNCHANGED <<auxVars, now, recVars, redis, db, req, analysis, charge, nreq>>

save_failed(w) == save_failed_step(w, TRUE)

\* any of the four saves of request_analysis, with the database unreachable
save_unavailable(w) ==
    \/ save_pending_step(w, FALSE)
    \/ save_processing_step(w, FALSE)
    \/ save_completed_step(w, FALSE)
    \/ save_failed_step(w, FALSE)

\* Database.session, line 39: request_analysis returned, the block commits
session_exit_commit(w) ==
    /\ pc[w] = "commit"
    /\ db' = session_commit(db, sess[w])
    /\ sess' = [sess EXCEPT ![w] = None]
    /\ pc' = [pc EXCEPT ![w] = "idle"]
    /\ outcome' = [outcome EXCEPT ![w] = "Completed"]
    /\ UNCHANGED <<auxVars, now, recVars, redis, req, analysis, trace, charge, nreq>>

\* Database.session, lines 40-42: request_analysis raised, the block rolls
\* back and re-raises to the handler's except clauses (lines 189-200)
session_exit_rollback(w) ==
    /\ pc[w] = "rollback"
    /\ db' = session_rollback(db, sess[w])
    /\ sess' = [sess EXCEPT ![w] = None]
    /\ pc' = [pc EXCEPT ![w] = "idle"]
    /\ UNCHANGED <<auxVars, now, recVars, redis, req, analysis, outcome, trace, charge, nreq>>

NoCall == [op |-> "none", raised |-> FALSE, pre |-> "none"]

NoParse == [response |-> <<>>, done |-> FALSE, result |-> [raised |-> FALSE, value |-> EmptyObject]]

NoRemaining ==
    [daily_remaining |-> 0, hourly_remaining |-> 0,
     daily_limit |-> 0, hourly_limit |-> 0]

NoLim ==
    [op |-> "none", user |-> "", allowed |-> FALSE, remaining |-> NoRemaining,
     incs |-> [u \in Users |-> 0], hincs |-> [u \in Users |-> 0], n |-> 0]

NoStore ==
    [op |-> "none", n |-> 0, saved |-> None, got |-> None,
     table |-> "analyses", rows |-> [i \in Ids |-> None],
     user |-> "", limit |-> 0, offset |-> 0, listed |-> <<>>]

\* no repository call
StIdle == repo = NoStore

\* no service call, no response to parse, no limiter call
AuxIdle ==
    /\ svc = NoService
    /\ parsed = NoParse
    /\ lim = NoLim
    /\ StIdle

\* no request yet
SysIdle ==
    /\ db = [i \in Ids |-> None]
    /\ sess = [w \in Workers |-> None]
    /\ pc = [w \in Workers |-> "idle"]
    /\ req = [w \in Workers |-> NoRequest]
    /\ analysis = [w \in Workers |-> None]
    /\ outcome = [w \in Workers |-> "none"]
    /\ trace = [w \in Workers |-> <<>>]
    /\ charge = [w \in Workers |-> NoCharge]
    /\ nreq = 0

NoCounters == [k \in RedisKeys |-> None]

\* Hour 1 of day 0; u1 may have used the service in hour 0, whose hourly
\* counter has expired
Init ==
    /\ now = 1
    /\ redis \in
         { NoCounters,
           [NoCounters EXCEPT ![daily_key("u1", 0)] =
               Some([val |-> DailyLimit - 1, ttl |-> Some(HoursPerDay)])] }
    /\ record = None
    /\ lastCall = NoCall
    /\ ncall = 0
    /\ SysIdle
    /\ AuxIdle

Next ==
    \E w \in Workers :
        \/ process_situation(w)
        \/ check_limit_daily(w)
        \/ check_limit_hourly(w)
        \/ save_pending(w)
        \/ save_processing(w)
        \/ analyze(w)
        \/ save_completed(w)
        \/ incr_daily(w)
        \/ expire_daily(w)
        \/ incr_hourly(w)
        \/ expire_hourly(w)
        \/ save_failed(w)
        \/ session_exit_commit(w)
        \/ session_exit_rollback(w)

Spec == Init /\ [][Next]_vars

\* SpecFault: the same requests against a database that may be unreachable
\* at any save
NextFault ==
    \/ Next
    \/ \E w \in Workers : save_unavailable(w)

SpecFault == Init /\ [][NextFault]_vars

\* SpecCounterFault: the same requests against a counter store that may be
\* unreachable at any command
NextCounterFault ==
    \/ Next
    \/ \E w \in Workers : check_limit_unavailable(w)
    \/ \E w \in Workers : increment_usage_unavailable(w)

SpecCounterFault == Init /\ [][NextCounterFault]_vars

(* ---------------------------------------------------------------------- *)
(* SpecRecord: any sequence of create / start_processing / complete /      *)
(* fail calls on one Analysis aggregate                                    *)
(* ---------------------------------------------------------------------- *)
Called(op, res, pre) ==
    /\ ncall < MaxCalls
    /\ ncall' = ncall + 1
    /\ lastCall' = [op |-> op, raised |-> res.raised, pre |-> pre]

RecCreate ==
    /\ record = None
    /\ \E text \in Texts :
         LET res == create(1, "u1", text, now) IN
         /\ Called("create", res, "none")
         /\ record' = res.a
    /\ UNCHANGED <<auxVars, now, sysVars>>

RecStartProcessing ==
    /\ record # None
    /\ LET res == start_processing(record[1]) IN
         /\ Called("start_processing", res, record[1].status)
         /\ record' = Some(res.a)
    /\ UNCHANGED <<auxVars, now, sysVars>>

RecComplete ==
    /\ record # None
    /\ \E r \in Recommendations :
         LET res == complete(record[1], r, now) IN
         /\ Called("complete", res, record[1].status)
         /\ record' = Some(res.a)
    /\ UNCHANGED <<auxVars, now, sysVars>>

RecFail ==
    /\ record # None
    /\ \E msg \in ErrorMessages :
         LET res == fail(record[1], msg, now) IN
         /\ Called("fail", res, record[1].status)
         /\ record' = Some(res.a)
    /\ UNCHANGED <<auxVars, now, sysVars>>

InitRecord ==
    /\ now = 0
    /\ record = None
    /\ lastCall = NoCall
    /\ ncall = 0
    /\ redis = NoCounters
    /\ SysIdle
    /\ AuxIdle

NextRecord ==
    \/ Tick
    \/ RecCreate
    \/ RecStartProcessing
    \/ RecComplete
    \/ RecFail

SpecRecord == InitRecord /\ [][NextRecord]_vars

(* ---------------------------------------------------------------------- *)
(* SpecService: one AnalysisService.analyze_situation call, for each       *)
(* configured retry_attempts and each way the attempts of the adapter end  *)
(* ---------------------------------------------------------------------- *)
InitService ==
    /\ now = 0
    /\ record = None
    /\ lastCall = NoCall
    /\ ncall = 0
    /\ redis = NoCounters
    /\ SysIdle
    /\ svc \in { [NoService EXCEPT !.n = n] : n \in 0 .. MaxRetry }
    /\ parsed = NoParse
    /\ lim = NoLim
    /\ StIdle

NextService ==
    \/ analyze_situation_begin
    \/ call_claude
    \/ backoff_sleep
    \/ analyze_situation_apply
    \/ analyze_situation_save
    \/ analyze_situation_save_unavailable

SpecService == InitService /\ [][NextService]_vars

\* the event loop runs the task: a call ends by its timeout at the latest,
\* a sleep ends, the stores answer
SpecServiceLive == SpecService /\ WF_vars(NextService)

(* ---------------------------------------------------------------------- *)
(* SpecParse: _parse_response applied to each raw response                 *)
(* ---------------------------------------------------------------------- *)
InitParse ==
    /\ now = 0
    /\ record = None
    /\ lastCall = NoCall
    /\ ncall = 0
    /\ redis = NoCounters
    /\ SysIdle
    /\ svc = NoService
    /\ \E pre \in Pads, body \in Bodies, post \in Pads :
         parsed = [NoParse EXCEPT !.response = pre \o body \o post]
    /\ lim = NoLim
    /\ StIdle

ParseResponse ==
    /\ ~parsed.done
    /\ parsed' = [parsed EXCEPT !.done = TRUE,
                                !.result = parse_response(parsed.response)]
    /\ UNCHANGED <<now, recVars, sysVars, svc, lim, stVars>>

NextParse == ParseResponse

SpecParse == InitParse /\ [][NextParse]_vars

(* ---------------------------------------------------------------------- *)
(* SpecLimiter: any sequence of check_limit, increment_usage and           *)
(* get_remaining_requests calls, one at a time, while the clock runs       *)
(* ---------------------------------------------------------------------- *)
\* number of calls made on the limiter
MaxLimCalls == 4

LimCalled(op, u, allowed, remaining, incs, store) ==
    /\ lim.n < MaxLimCalls
    /\ lim' = [op |-> op, user |-> u, allowed |-> allowed,
               remaining |-> remaining, incs |-> incs,
               hincs |-> IF op = "increment_usage"
                         THEN [lim.hincs EXCEPT ![u] = @ + 1]
                         ELSE lim.hincs,
               n |-> lim.n + 1]
    /\ redis' = store
    /\ UNCHANGED <<now, recVars, db, sess, pc, req, analysis, outcome, trace,
                   charge, nreq, svc, parsed, stVars>>

LimCheck ==
    \E u \in Users :
        LET res == check_limit(redis, u, now) IN
        LimCalled("check_limit", u, res.value, NoRemaining, lim.incs, res.store)

LimIncrement ==
    \E u \in Users :
        LimCalled("increment_usage", u, FALSE, NoRemaining,
                  [lim.incs EXCEPT ![u] = @ + 1],
                  increment_usage(redis, u, now))

LimRemaining ==
    \E u \in Users :
        LET res == get_remaining_requests(redis, u, now) IN
        LimCalled("get_remaining_requests", u, FALSE, res.value, lim.incs,
                  res.store)

\* an hour passes; expired keys are gone, a new hour starts the count of the
\* hour's increments again and a new day that of the day's
LimTick ==
    /\ now < MaxNow
    /\ now' = now + 1
    /\ redis' = Purge(redis, now + 1)
    /\ lim' = [lim EXCEPT
                 !.op = "tick",
                 !.incs = IF Day(now + 1) = Day(now)
                          THEN @ ELSE [u \in Users |-> 0],
                 !.hincs = [u \in Users |-> 0]]
    /\ UNCHANGED <<recVars, db, sess, pc, req, analysis, outcome, trace,
                   charge, nreq, svc, parsed, stVars>>

InitLimiter ==
    /\ now = 0
    /\ record = None
    /\ lastCall = NoCall
    /\ ncall = 0
    /\ redis = NoCounters
    /\ SysIdle
    /\ AuxIdle

NextLimiter ==
    \/ LimCheck
    \/ LimIncrement
    \/ LimRemaining
    \/ LimTick

SpecLimiter == InitLimiter /\ [][NextLimiter]_vars

(* ---------------------------------------------------------------------- *)
(* SpecStore: one Analysis aggregate goes through any sequence of its      *)
(* transitions while one session saves it, commits and reads it back       *)
(* ---------------------------------------------------------------------- *)
\* number of save and get_by_id calls made on the repository
MaxStoreCalls == 3

\* the session of the repository under test
Session == "w1"

\* Analysis.create for the record under test
StoreCreate ==
    /\ record = None
    /\ \E text \in Texts :
         /\ ~create(1, "u1", text, now).raised
         /\ record' = create(1, "u1", text, now).a
    /\ UNCHANGED <<now, lastCall, ncall, sysVars, auxVars>>

\* what a transition of the aggregate can make of it
Transitions(a) ==
    {start_processing(a)}
        \cup { complete(a, r, now) :
                   r \in Recommendations \cup SparseRecommendations }
        \cup { fail(a, msg, now) : msg \in ErrorMessages }

\* one transition of the record that is not refused
StoreAdvance ==
    /\ record # None
    /\ \E res \in Transitions(record[1]) :
         /\ ~res.raised
         /\ record' = Some(res.a)
    /\ UNCHANGED <<now, lastCall, ncall, sysVars, auxVars>>

\* `await repository.save(analysis)` with the aggregate as it is now
StoreSave ==
    /\ record # None
    /\ repo.n < MaxStoreCalls
    /\ sess' = [sess EXCEPT ![Session] =
                  Some(save(select_by_id(Session, record[1].id), record[1]))]
    /\ repo' = [repo EXCEPT !.op = "save", !.n = @ + 1, !.saved = record,
                             !.got = None]
    /\ UNCHANGED <<now, recVars, redis, db, pc, req, analysis, outcome, trace,
                   charge, nreq, svc, parsed, lim>>

\* `await session.commit()`
StoreCommit ==
    /\ sess[Session] # None
    /\ db' = session_commit(db, sess[Session])
    /\ sess' = [sess EXCEPT ![Session] = None]
    /\ repo' = [repo EXCEPT !.op = "commit"]
    /\ UNCHANGED <<now, recVars, redis, pc, req, analysis, outcome, trace,
                   charge, nreq, svc, parsed, lim>>

\* `await repository.get_by_id(analysis.id)` for the record saved before
StoreGet ==
    /\ repo.saved # None
    /\ repo.n < MaxStoreCalls
    /\ LET row == select_by_id(Session, repo.saved[1].id) IN
       repo' = [repo EXCEPT
                   !.op = "get_by_id",
                   !.n = @ + 1,
                   !.got = IF row = None THEN None
                           ELSE Some(to_domain(row[1]))]
    /\ UNCHANGED <<now, recVars, sysVars, svc, parsed, lim>>

NextStore ==
    \/ Tick
    \/ StoreCreate
    \/ StoreAdvance
    \/ StoreSave
    \/ StoreCommit
    \/ StoreGet

SpecStore == InitRecord /\ [][NextStore]_vars

(* ---------------------------------------------------------------------- *)
(* SpecListing: the pages of one user's records are fetched one after the  *)
(* other from a table that does not change. A row is given by the columns  *)
(* the query uses; the table is `analyses` (get_user_analyses) or          *)
(* `situations` (get_user_situations).                                     *)
(* ---------------------------------------------------------------------- *)
\* largest page size asked for
MaxPageSize == 2

\* persistence/models.py: UniqueConstraint("user_id", "created_at") of table
\* analyses; table situations has no such constraint
idx_user_analyses_by_date(rows) ==
    \A i, j \in DOMAIN rows :
        (i # j /\ rows[i] # None /\ rows[j] # None /\
         rows[i][1].user_id = rows[j][1].user_id)
            => rows[i][1].created_at # rows[j][1].created_at

\* WHERE user_id = :user_id
UserRows(rows, u) ==
    { i \in DOMAIN rows : rows[i] # None /\ rows[i][1].user_id = u }

\* ORDER BY created_at DESC: the orders the database may return the user's
\* rows in; rows with the same created_at come in any order, which may be
\* another one for the next statement
Orderings(rows, u) ==
    { f \in [1 .. Cardinality(UserRows(rows, u)) -> UserRows(rows, u)] :
        /\ \A i, j \in DOMAIN f : i # j => f[i] # f[j]
        /\ \A i, j \in DOMAIN f :
              i < j => rows[f[i]][1].created_at >= rows[f[j]][1].created_at }

\* get_user_analyses / get_user_situations: the lists of identifiers one
\* call may return
get_user_analyses(rows, u, limit, offset) ==
    { Slice(f, offset, offset + limit) : f \in Orderings(rows, u) }

\* the next page: offset moves on by limit
ListPage ==
    /\ repo.offset < Max(1, Cardinality(UserRows(repo.rows, repo.user)))
    /\ \E page \in get_user_analyses(repo.rows, repo.user, repo.limit,
                                      repo.offset) :
         repo' = [repo EXCEPT !.op = "get_user_analyses",
                              !.offset = @ + repo.limit,
                              !.listed = @ \o page]
    /\ UNCHANGED <<now, recVars, sysVars, svc, parsed, lim>>

InitListing ==
    /\ now = 0
    /\ record = None
    /\ lastCall = NoCall
    /\ ncall = 0
    /\ redis = NoCounters
    /\ SysIdle
    /\ svc = NoService
    /\ parsed = NoParse
    /\ lim = NoLim
    /\ \E table \in {"analyses", "situations"}, u \in Users,
          limit \in 1 .. MaxPageSize,
          rows \in [Ids -> {None} \cup
                      { Some([user_id |-> v, created_at |-> t]) :
                          v \in Users, t \in 0 .. MaxNow }] :
         /\ table = "analyses" => idx_user_analyses_by_date(rows)
         /\ repo = [NoStore EXCEPT !.table = table, !.rows = rows,
                                   !.user = u, !.limit = limit]

NextListing == ListPage

SpecListing == InitListing /\ [][NextListing]_vars

(* ---------------------------------------------------------------------- *)
(* SpecCreate: Analysis.create and Situation.create are each called once   *)
(* with the same situation text, padded or not                             *)
(* ---------------------------------------------------------------------- *)
\* Analysis.create(user_id, child_id, situation_text)
CreateAnalysis ==
    /\ outcome[Session] = "none"
    /\ LET res == create(req[Session].id, req[Session].user_id,
                         req[Session].situation, now) IN
         /\ analysis' = [analysis EXCEPT ![Session] = res.a]
         /\ outcome' = [outcome EXCEPT ![Session] =
                          IF res.raised THEN "InvalidSituation" ELSE "created"]
    /\ UNCHANGED <<auxVars, now, recVars, redis, db, sess, pc, req, trace,
                   charge, nreq>>

\* Situation.create(user_id, child_id, description)
CreateSituation ==
    /\ svc.pc = "idle"
    /\ LET res == Situation_create(svc.text) IN
         Service([svc EXCEPT
                    !.pc = "done",
                    !.situation = res.situation,
                    !.result = IF res.raised
                               THEN [kind |-> "raised",
                                     error |-> "InvalidSituation"]
                               ELSE [kind |-> "returned", error |-> ""]])

InitCreate ==
    /\ now \in 0 .. MaxNow
    /\ record = None
    /\ lastCall = NoCall
    /\ ncall = 0
    /\ redis = NoCounters
    /\ db = [i \in Ids |-> None]
    /\ sess = [w \in Workers |-> None]
    /\ pc = [w \in Workers |-> "idle"]
    /\ analysis = [w \in Workers |-> None]
    /\ outcome = [w \in Workers |-> "none"]
    /\ trace = [w \in Workers |-> <<>>]
    /\ charge = [w \in Workers |-> NoCharge]
    /\ nreq = 0
    /\ parsed = NoParse
    /\ lim = NoLim
    /\ StIdle
    /\ \E id \in Ids, u \in Users, text \in Texts \cup PaddedTexts :
         /\ req = [w \in Workers |->
                     IF w = Session
                     THEN [id |-> id, user_id |-> u, situation |-> text]
                     ELSE NoRequest]
         /\ svc = [NoService EXCEPT !.text = text]

NextCreate ==
    \/ CreateAnalysis
    \/ CreateSituation

SpecCreate == InitCreate /\ [][NextCreate]_vars

(* ---------------------------------------------------------------------- *)
(* One Situation and the calls of its methods                              *)
(* ---------------------------------------------------------------------- *)
\* the arguments of apply_analysis: emotional_tone is an EmotionalTone
AnalysisArguments ==
    { [FullObject EXCEPT !.hidden_meaning = Some(h),
                         !.emotional_tone = Some(tone),
                         !.confidence_score = Some(c)] @@ [analyzed_at |-> None] :
        h \in {"h1", "h2"}, tone \in valid_tones, c \in {-10, 0, 100, 150} }

\* situation.apply_analysis(...)
ApplyAnalysis ==
    /\ ncall < MaxCalls
    /\ \E result \in AnalysisArguments :
         LET res == apply_analysis(svc.situation[1], result, now) IN
         /\ svc' = [svc EXCEPT
                      !.situation = Some(res.situation),
                      !.result = IF res.raised = ""
                                 THEN [kind |-> "returned", error |-> ""]
                                 ELSE [kind |-> "raised", error |-> res.raised]]
         /\ ncall' = ncall + 1
    /\ UNCHANGED <<now, record, lastCall, sysVars, parsed, lim, stVars>>

\* situation.collect_events()
CollectEvents ==
    /\ ncall < MaxCalls
    /\ svc' = [svc EXCEPT
                 !.situation = Some(collect_events(svc.situation[1]).situation),
                 !.result = [kind |-> "returned", error |-> ""]]
    /\ ncall' = ncall + 1
    /\ UNCHANGED <<now, record, lastCall, sysVars, parsed, lim, stVars>>

\* a situation as Situation.create returns it
InitSituation ==
    /\ now = 0
    /\ record = None
    /\ lastCall = NoCall
    /\ ncall = 0
    /\ redis = NoCounters
    /\ SysIdle
    /\ parsed = NoParse
    /\ lim = NoLim
    /\ StIdle
    /\ svc = [NoService EXCEPT
                !.situation = Some([description |-> MIN_DESCRIPTION_LENGTH,
                                    analysis_result |-> None,
                                    analyzed_at |-> None,
                                    events |-> <<>>])]

NextSituation ==
    \/ ApplyAnalysis
    \/ CollectEvents
    \/ Tick

SpecSituation == InitSituation /\ [][NextSituation]_vars

(* ---------------------------------------------------------------------- *)
(* domain/aggregates/user.py: one User and the calls of its methods        *)
(* ---------------------------------------------------------------------- *)
\* User.MAX_CHILDREN
MAX_CHILDREN == 10

\* the user is held in `record`: children is the list of the children's
\* ids, added the number of ids uuid4 has handed out for them
UserCalled(op, raised, user) ==
    /\ ncall < MaxCalls
    /\ record' = Some(user)
    /\ lastCall' = [op |-> op, raised |-> raised, pre |-> "none"]
    /\ ncall' = ncall + 1
    /\ UNCHANGED <<now, sysVars, auxVars>>

\* user.add_child(name, birth_date, gender)
add_child ==
    LET user == record[1] IN
    IF Len(user.children) >= MAX_CHILDREN \/ ~user.is_active
    THEN UserCalled("add_child", TRUE, user)
    ELSE UserCalled("add_child", FALSE,
                    [user EXCEPT !.children = Append(@, user.added + 1),
                                 !.added = @ + 1,
                                 !.updated_at = now,
                                 !.events = Append(@, "ChildAdded")])

\* user.remove_child(child_id), for the id of a child or any other id
remove_child ==
    LET user == record[1] IN
    \E child_id \in 1 .. MaxCalls :
        UserCalled("remove_child", FALSE,
                   [user EXCEPT
                      !.children = SelectSeq(@, LAMBDA c : c # child_id),
                      !.updated_at = now])

\* user.complete_onboarding()
complete_onboarding ==
    LET user == record[1] IN
    IF user.onboarding_completed \/ user.children = <<>>
    THEN UserCalled("complete_onboarding", TRUE, user)
    ELSE UserCalled("complete_onboarding", FALSE,
                    [user EXCEPT !.onboarding_completed = TRUE,
                                 !.updated_at = now,
                                 !.events = Append(@, "OnboardingCompleted")])

\* user.deactivate()
deactivate ==
    UserCalled("deactivate", FALSE,
               [record[1] EXCEPT !.is_active = FALSE, !.updated_at = now])

\* user.activate()
activate ==
    UserCalled("activate", FALSE,
               [record[1] EXCEPT !.is_active = TRUE, !.updated_at = now])

\* the user as User.create returns it
InitUser ==
    /\ now = 0
    /\ record = Some([children |-> <<>>, added |-> 0,
                      onboarding_completed |-> FALSE, is_active |-> TRUE,
                      updated_at |-> 0, events |-> <<"UserRegistered">>])
    /\ lastCall = NoCall
    /\ ncall = 0
    /\ redis = NoCounters
    /\ SysIdle
    /\ AuxIdle

NextUser ==
    \/ add_child
    \/ remove_child
    \/ complete_onboarding
    \/ deactivate
    \/ activate
    \/ Tick

SpecUser == InitUser /\ [][NextUser]_vars

(* ---------------------------------------------------------------------- *)
(* Properties of the Analysis aggregate (checked under SpecRecord)         *)
(* ---------------------------------------------------------------------- *)
IsTerminal(a) == a.status \in {"completed", "failed"}

\* C5: in every reachable state of a record, status = completed iff a
\* recommendation is set and the error is null; status = failed iff an error
\* is set and the recommendation is null; status is pending or processing
\* iff both are null.
C5_StatusMatchesFields ==
    record # None =>
        LET a == record[1] IN
        /\ (a.status = "completed") <=>
               (a.recommendation # None /\ a.error_message = None)
        /\ (a.status = "failed") <=>
               (a.error_message # None /\ a.recommendation = None)
        /\ (a.status \in {"pending", "processing"}) <=>
               (a.recommendation = None /\ a.error_message = None)

\* C6: once a record is completed or failed, no call to start_processing,
\* complete or fail changes its status, recommendation or error message:
\* every call made on a terminal record is rejected.
C6_TerminalIsFinal ==
    [][(record # None /\ IsTerminal(record[1]) /\ ncall' = ncall + 1) =>
          /\ lastCall'.raised
          /\ record'[1].status = record[1].status
          /\ record'[1].recommendation = record[1].recommendation
          /\ record'[1].error_message = record[1].error_message]_vars

\* C7: completed_at is null while the record is pending or processing, is
\* set on the transition into completed or failed, and never changes
\* afterwards.
C7_CompletedAtSetOnce ==
    /\ [](record # None =>
            ((record[1].completed_at = None) <=> ~IsTerminal(record[1])))
    /\ [][(record # None /\ record[1].completed_at # None) =>
             record'[1].completed_at = record[1].completed_at]_vars

\* C8: complete succeeds only when the status is processing; on a pending,
\* completed or failed record it raises and leaves status, recommendation,
\* error message and completion timestamp unchanged.
C8_CompleteOnlyFromProcessing ==
    [][(ncall' = ncall + 1 /\ lastCall'.op = "complete") =>
          IF record[1].status = "processing"
          THEN /\ ~lastCall'.raised
               /\ record'[1].status = "completed"
               /\ record'[1].recommendation # None
               /\ record'[1].completed_at = Some(now)
          ELSE /\ lastCall'.raised
               /\ record' = record]_vars

\* a complete() call was rejected on a failed record
C8_Witness ==
    /\ lastCall.op = "complete"
    /\ lastCall.raised
    /\ lastCall.pre = "failed"

\* C9: start_processing succeeds only when the status is pending and then
\* sets it to processing; in any other status it raises and leaves the
\* record unchanged.
C9_StartOnlyFromPending ==
    [][(ncall' = ncall + 1 /\ lastCall'.op = "start_processing") =>
          IF record[1].status = "pending"
          THEN /\ ~lastCall'.raised
               /\ record' = Some([record[1] EXCEPT !.status = "processing"])
          ELSE /\ lastCall'.raised
               /\ record' = record]_vars

\* a start_processing() call was rejected on a record already processing
C9_Witness ==
    /\ lastCall.op = "start_processing"
    /\ lastCall.raised
    /\ lastCall.pre = "processing"

(* ---------------------------------------------------------------------- *)
(* Properties of request_analysis (checked under Spec)                     *)
(* ---------------------------------------------------------------------- *)
Raised(w, name) == pc[w] = "idle" /\ outcome[w] = name

\* C1: for any interleaving of request_analysis invocations by the same
\* user, the user's daily and hourly counters never exceed the configured
\* limits.
C1_CountersWithinLimits ==
    \A u \in Users :
        /\ Count(redis, daily_key(u, now)) <= DailyLimit
        /\ Count(redis, hourly_key(u, now)) <= HourlyLimit

\* C2: when the analyzer fails, request_analysis raises AnalysisFailed, the
\* record of the request can be read back from the store with status failed
\* and an error message after the call has raised, and the request has not
\* been charged.
C2_FailedRecordIsDurable ==
    \A w \in Workers :
        Raised(w, "AnalysisFailed") =>
            LET got == get_by_id(req[w].id) IN
            /\ got # None
            /\ got[1].status = "failed"
            /\ got[1].error_message # None
            /\ charge[w] = NoCharge

LimitReached(w) ==
    \/ /\ pc[w] = "check_daily"
       /\ Count(redis, daily_key(req[w].user_id, now)) >= DailyLimit
    \/ /\ pc[w] = "check_hourly"
       /\ Count(redis, hourly_key(req[w].user_id, now)) >= HourlyLimit

\* C4: if check_limit finds the user at a limit, request_analysis raises
\* QuotaExceeded having created and saved no record and called neither the
\* analyzer nor increment_usage; the store and the counters are unchanged.
C4_QuotaRejectionLeavesNoTrace ==
    /\ [][\A w \in Workers :
            (LimitReached(w) /\ pc'[w] # pc[w]) =>
                /\ outcome'[w] = "QuotaExceeded"
                /\ pc'[w] = "rollback"
                /\ db' = db
                /\ redis' = redis]_vars
    /\ [](\A w \in Workers :
            outcome[w] = "QuotaExceeded" =>
                /\ trace[w] = <<"checkLimit">>
                /\ analysis[w] = None
                /\ sess[w] = None
                /\ get_by_id(req[w].id) = None
                /\ charge[w] = NoCharge)

\* a request has been turned away with QuotaExceeded
C4_Witness == \E w \in Workers : Raised(w, "QuotaExceeded")

IsPrefix(s, t) == Len(s) <= Len(t) /\ s = SubSeq(t, 1, Len(s))

SuccessPath ==
    <<"checkLimit", "create", "save", "startProcessing", "save", "analyze",
      "complete", "save", "incrementUsage">>

FailurePath ==
    <<"checkLimit", "create", "save", "startProcessing", "save", "analyze",
      "fail", "save">>

\* the row worker w's session holds has this status
Persisted(w, status) == sess[w] # None /\ sess[w][1].status = status

StoppedAtSave(steps) ==
    \E path \in {SuccessPath, FailurePath} :
        \E k \in 1 .. Len(path) :
            /\ path[k] = "save"
            /\ steps = SubSeq(path, 1, k - 1) \o <<"saveFailed">>

\* C11: if a save inside request_analysis fails, the error propagates at
\* once: the failing step is the request's last, no state transition,
\* analyzer call or increment_usage follows it, and a request that returns
\* returns a completed record that has been written to the store.
C11_SaveFailurePropagates ==
    /\ [](\A w \in Workers :
            outcome[w] = "StoreUnavailable" =>
                /\ pc[w] \in {"rollback", "idle"}
                /\ StoppedAtSave(trace[w])
                /\ charge[w] = NoCharge)
    /\ [][\A w \in Workers :
            outcome'[w] = "StoreUnavailable" =>
                /\ analysis'[w] = analysis[w]
                /\ trace'[w] = IF outcome[w] = "StoreUnavailable"
                               THEN trace[w]
                               ELSE trace[w] \o <<"saveFailed">>
                /\ charge'[w] = charge[w]
                /\ sess'[w] \in {sess[w], None}]_vars
    /\ [](\A w \in Workers :
            (pc[w] = "commit" \/ Raised(w, "Completed")) =>
                /\ analysis[w][1].status = "completed"
                /\ trace[w] = SuccessPath
                /\ pc[w] = "commit" =>
                     /\ Persisted(w, "completed")
                     /\ to_domain(sess[w][1]) = analysis[w][1]
                /\ pc[w] = "idle" =>
                     get_by_id(req[w].id) = Some(analysis[w][1]))

\* the save of a completed record failed and the request has raised
C11_Witness ==
    \E w \in Workers :
        /\ Raised(w, "StoreUnavailable")
        /\ analysis[w] # None
        /\ analysis[w][1].status = "completed"
        /\ get_by_id(req[w].id) = None

IsTerminalRow(s) == s # None /\ s[1].status \in {"completed", "failed"}

C13_Terminates ==
    (svc.pc # "idle") ~>
        /\ svc.pc = "done"
        /\ \/ svc.result.kind = "raised"
           \/ /\ svc.result.kind = "returned"
              /\ svc.saved # None
              /\ svc.saved[1].analysis_result # None

\* the call has raised after the adapter used up all its attempts
C13_Witness ==
    /\ svc.pc = "done"
    /\ svc.n = MaxRetry
    /\ svc.result = [kind |-> "raised", error |-> "AnalysisFailed"]
    /\ svc.gw.kind = "raised"

\* the number of times the backing service was invoked
CallsMade(log) == Cardinality({ i \in 1 .. Len(log) : log[i].ev = "call" })

C15_BackoffBetweenAttempts ==
    \A i \in 2 .. Len(svc.log) :
        svc.log[i].ev = "call" =>
            svc.log[i - 1] = Event("sleep", 2 ^ (svc.log[i].arg - 1))

(* ---------------------------------------------------------------------- *)
(* Properties of _parse_response (checked under SpecParse)                 *)
(* ---------------------------------------------------------------------- *)
\* some region of the response, from an opening to a closing brace, is a
\* JSON object
HasJsonObject(response) ==
    \E i, j \in 1 .. Len(response) :
        i < j /\ ~json_loads(SubSeq(response, i, j)).raised

\* one of the four texts of a recommendation is missing in object c
LacksText(c) ==
    \/ c.hidden_meaning = None
    \/ c.immediate_actions = None
    \/ c.long_term_recommendations = None
    \/ c.what_not_to_do = None

\* the response is the object c wrapped in prose that has no braces
IsWrapped(response, c) ==
    \E i \in 1 .. Len(response) :
        /\ i + 2 <= Len(response)
        /\ response[i] = LB
        /\ response[i + 1] = Members(c)
        /\ response[i + 2] = RB
        /\ \A j \in 1 .. Len(response) :
              j \notin {i, i + 1, i + 2} => response[j] = Prose

\* the response is the object c, prose without braces before it, and after
\* it prose in which a brace occurs
IsFollowedByBraces(response, c) ==
    \E i \in 1 .. Len(response) :
        /\ i + 2 < Len(response)
        /\ response[i] = LB
        /\ response[i + 1] = Members(c)
        /\ response[i + 2] = RB
        /\ \A j \in 1 .. (i - 1) : response[j] = Prose
        /\ \E j \in (i + 3) .. Len(response) : response[j] \in {LB, RB}

\* object c as a recommendation: a tone outside the enum becomes neutral,
\* an absent confidence 0.8
Recommended(c) ==
    [c EXCEPT
       !.emotional_tone =
           IF @[1] \in {"positive", "neutral", "concerning", "urgent"}
           THEN @ ELSE Some("neutral"),
       !.confidence_score = IF @ = None THEN Some(80) ELSE @]

\* C16: _parse_response never raises, and for a response in which no JSON
\* object can be parsed, or whose object lacks hidden_meaning,
\* immediate_actions, long_term_recommendations or what_not_to_do, it
\* returns the fixed fallback (tone neutral, confidence 0.5).
C16_ParseNeverRaises ==
    parsed.done =>
        /\ ~parsed.result.raised
        /\ (\/ ~HasJsonObject(parsed.response)
            \/ \E i, j \in 1 .. Len(parsed.response) :
                 /\ i < j
                 /\ ~json_loads(SubSeq(parsed.response, i, j)).raised
                 /\ LacksText(json_loads(SubSeq(parsed.response, i, j)).value))
           => /\ parsed.result.value = FallbackResponse
              /\ parsed.result.value.emotional_tone = Some("neutral")
              /\ parsed.result.value.confidence_score = Some(50)

\* an object without what_not_to_do was answered with the fallback
C16_Witness ==
    /\ parsed.done
    /\ parsed.response =
         <<LB, Members([FullObject EXCEPT !.what_not_to_do = None,
                                          !.emotional_tone = Some("positive"),
                                          !.confidence_score = Some(90)]), RB>>
    /\ parsed.result = [raised |-> FALSE, value |-> FallbackResponse]

C18_FirstBalancedRegion ==
    parsed.done =>
        \A c \in Contents :
            (/\ IsFollowedByBraces(parsed.response, c)
             /\ ~LacksText(c)
             /\ c.emotional_tone # None) =>
                parsed.result = [raised |-> FALSE, value |-> Recommended(c)]

(* ---------------------------------------------------------------------- *)
(* Properties of the rate limiter (checked under SpecLimiter)              *)
(* ---------------------------------------------------------------------- *)
\* C19: check_limit(u) returns true exactly when u's daily count is below
\* the daily limit and u's hourly count is below the hourly limit, a missing
\* counter counting as 0; after daily-limit increments for u on one day it
\* returns false, and for a user without increments it returns true.
C19_CheckLimit ==
    [][(lim'.n = lim.n + 1 /\ lim'.op = "check_limit") =>
          LET u == lim'.user IN
          /\ lim'.allowed <=>
                /\ Count(redis, daily_key(u, now)) < DailyLimit
                /\ Count(redis, hourly_key(u, now)) < HourlyLimit
          /\ lim.incs[u] >= DailyLimit => ~lim'.allowed
          /\ lim.incs[u] = 0 => lim'.allowed]_vars

\* u1 was refused for its daily count alone while u2 had used nothing
C19_Witness ==
    /\ lim.op = "check_limit"
    /\ lim.user = "u1"
    /\ ~lim.allowed
    /\ lim.incs["u1"] = DailyLimit
    /\ lim.incs["u2"] = 0
    /\ Count(redis, hourly_key("u1", now)) = 0

\* C20: check_limit and get_remaining_requests leave every counter and every
\* expiry as they were.
C20_ReadsLeaveStore ==
    [][(/\ lim'.n = lim.n + 1
        /\ lim'.op \in {"check_limit", "get_remaining_requests"}) =>
          redis' = redis]_vars

\* the remaining requests of a user over the daily limit were read
C20_Witness ==
    /\ lim.op = "get_remaining_requests"
    /\ lim.remaining.daily_remaining = 0
    /\ Count(redis, daily_key(lim.user, now)) > DailyLimit
    /\ redis[daily_key(lim.user, now)][1].ttl # None

(* C21: get_remaining_requests reports, for each window, the limit less    *)
(* the count used when the count is within the limit and zero when the     *)
(* count has passed the limit; a remaining figure is never negative.       *)
C21_RemainingClamped ==
    lim.op = "get_remaining_requests" =>
        LET dailyUsed == Count(redis, daily_key(lim.user, now))
            hourlyUsed == Count(redis, hourly_key(lim.user, now))
            rem == lim.remaining
        IN  /\ rem.daily_remaining >= 0
            /\ rem.hourly_remaining >= 0
            /\ dailyUsed <= DailyLimit
                 => rem.daily_remaining + dailyUsed = DailyLimit
            /\ dailyUsed > DailyLimit => rem.daily_remaining = 0
            /\ hourlyUsed <= HourlyLimit
                 => rem.hourly_remaining + hourlyUsed = HourlyLimit
            /\ hourlyUsed > HourlyLimit => rem.hourly_remaining = 0

\* the hourly counter has passed its limit while the daily one has not, and
\* the remaining figures are asked for
C21_Witness ==
    /\ lim.op = "get_remaining_requests"
    /\ Count(redis, hourly_key(lim.user, now)) > HourlyLimit
    /\ Count(redis, daily_key(lim.user, now)) < DailyLimit + 1
    /\ lim.remaining.hourly_remaining = 0

(* C22: increment_usage is one atomic step: in no reachable state has a    *)
(* request added to the daily counter without having added to the hourly   *)
(* counter as well.                                                        *)
C22_UsageAtomic ==
    \A w \in Workers : charge[w].daily = charge[w].hourly

\* the workers that make the given await of increment_usage for user u in
\* this step
Incrementing(u, from, to) ==
    { w \in Workers : req[w].user_id = u /\ pc[w] = from /\ pc'[w] = to }

(* C23: no increment is lost: whatever the other requests of the same user *)
(* are doing, every step adds to the user's daily counter exactly the      *)
(* number of daily INCRs made in it, and likewise for the hourly counter,  *)
(* so k completed increment_usage calls add exactly k to each.             *)
C23_NoLostUpdate ==
    [][\A u \in Users :
         /\ Count(redis', daily_key(u, now))
              = Count(redis, daily_key(u, now))
                  + Cardinality(Incrementing(u, "incr_daily", "expire_daily"))
         /\ Count(redis', hourly_key(u, now))
              = Count(redis, hourly_key(u, now))
                  + Cardinality(Incrementing(u, "incr_hourly", "expire_hourly"))
      ]_vars

\* two requests of one user have both finished increment_usage after both
\* passed check_limit, and the hour's counter shows the two of them
C23_Witness ==
    \E u \in Users :
        /\ \A w \in Workers :
              /\ req[w].user_id = u
              /\ outcome[w] = "Completed"
              /\ charge[w] = [daily |-> 1, hourly |-> 1]
        /\ Count(redis, hourly_key(u, now)) = Cardinality(Workers)
        /\ Count(redis, daily_key(u, now)) >= Cardinality(Workers)

(* C24: the expiry of a counter is set by the first increment of its key   *)
(* and is not moved by a later increment of the same key.                  *)
C24_ExpiryFixedByFirstIncrement ==
    [][\A k \in RedisKeys :
         (redis[k] # None /\ redis[k][1].ttl # None /\ redis'[k] # None)
             => redis'[k][1].ttl = redis[k][1].ttl
      ]_vars

(* C25: a counter is never negative, and a count belongs to its window     *)
(* only: the counters check_limit reads hold exactly the increments made   *)
(* in the current UTC day and hour, so a user who reached a limit in one   *)
(* day or hour starts from zero in the next and is allowed again.          *)
C25_WindowRollover ==
    /\ \A k \in RedisKeys : Count(redis, k) >= 0
    /\ \A u \in Users :
          /\ Count(redis, daily_key(u, now)) = lim.incs[u]
          /\ Count(redis, hourly_key(u, now)) = lim.hincs[u]
    /\ lim.op = "check_limit" =>
          lim.allowed = (/\ lim.incs[lim.user] < DailyLimit
                         /\ lim.hincs[lim.user] < HourlyLimit)

\* a user whose counter of the day before is still in the store, at the
\* daily limit, is allowed on the new day
C25_Witness ==
    /\ lim.op = "check_limit"
    /\ lim.allowed
    /\ Day(now) > 0
    /\ Count(redis, daily_key(lim.user, 0)) >= DailyLimit
    /\ Count(redis, daily_key(lim.user, now)) = 0

\* the steps of the request so far include the given one
Includes(steps, step) == \E i \in 1 .. Len(steps) : steps[i] = step

(* C26: when the counter store does not answer a command of check_limit or *)
(* increment_usage, the call ends in the store's error and returns no      *)
(* value; a request whose check_limit ended so has created no record,      *)
(* saved nothing, called no analyzer and charged nothing.                  *)
C26_CounterStoreFailure ==
    \A w \in Workers :
        /\ Includes(trace[w], "checkLimitFailed") =>
              /\ trace[w] = <<"checkLimitFailed">>
              /\ outcome[w] = "StoreUnavailable"
              /\ pc[w] \in {"rollback", "idle"}
              /\ analysis[w] = None
              /\ sess[w] = None
              /\ db[req[w].id] = None
              /\ charge[w] = NoCharge
        /\ Includes(trace[w], "incrementUsageFailed") =>
              /\ \A i \in 1 .. Len(trace[w]) :
                    trace[w][i] = "incrementUsageFailed"
                       => \A j \in i + 1 .. Len(trace[w]) :
                            trace[w][j] \in {"fail", "save"}
              /\ outcome[w] \in {"running", "AnalysisFailed"}
              /\ pc[w] \in {"save_failed", "rollback", "idle"}

\* the store did not answer the check of a user who is under both limits;
\* the request has ended in the error, with nothing created
C26_Witness ==
    \E w \in Workers :
        /\ trace[w] = <<"checkLimitFailed">>
        /\ Raised(w, "StoreUnavailable")
        /\ Count(redis, daily_key(req[w].user_id, now)) < DailyLimit
        /\ Count(redis, hourly_key(req[w].user_id, now)) < HourlyLimit
        /\ db[req[w].id] = None

\* the row a save of state a into an empty table leaves
RowOf(a) == save(None, a)

\* the row the session sees for the given identifier
Stored(id) == select_by_id(Session, id)

(* C27: save is an idempotent upsert by identifier: saving the state just  *)
(* saved once more leaves the row as it is, and after any sequence of      *)
(* saves of a record the table holds one row for its identifier, equal to  *)
(* the row of the state saved last, and no row for another identifier.     *)
C27_IdempotentUpsert ==
    /\ [][(repo'.op = "save" /\ repo'.n = repo.n + 1) =>
            save(Stored(record[1].id)', record[1]) = Stored(record[1].id)'[1]
        ]_vars
    /\ [](repo.saved # None =>
            /\ Stored(repo.saved[1].id) = Some(RowOf(repo.saved[1]))
            /\ \A id \in Ids \ {repo.saved[1].id} : db[id] = None)

\* the record was saved when it was processing or earlier, and once more
\* after complete() and fail(): the row is failed and has the recommendation
C27_Witness ==
    /\ repo.op = "save"
    /\ repo.n = MaxStoreCalls
    /\ db[1] # None
    /\ db[1][1].status \in {"pending", "processing"}
    /\ sess[Session] # None
    /\ sess[Session][1].status = "failed"
    /\ sess[Session][1].hidden_meaning # None

(* C28: get_by_id after save returns the record as it was saved: the same  *)
(* status, recommendation (confidence included), error message and         *)
(* timestamps, so a completed record comes back with its recommendation.   *)
C28_RoundTrip ==
    (repo.op = "get_by_id" /\ repo.saved # None) =>
        /\ repo.got # None
        /\ repo.got[1].status = repo.saved[1].status
        /\ repo.got[1].recommendation = repo.saved[1].recommendation
        /\ repo.got[1].error_message = repo.saved[1].error_message
        /\ repo.got[1].created_at = repo.saved[1].created_at
        /\ repo.got[1].completed_at = repo.saved[1].completed_at
        /\ repo.got[1].status = "completed"
             => repo.got[1].recommendation # None

(* C29: the pages of a user's records, fetched one after the other from a  *)
(* table that does not change, hold records of that user only, newest      *)
(* first, and once the last page is fetched every record of the user has   *)
(* been listed exactly once, also when records have the same creation      *)
(* time.                                                                   *)
C29_StablePagination ==
    repo.op = "get_user_analyses" =>
        LET mine == UserRows(repo.rows, repo.user)
            listed == repo.listed
        IN  /\ \A k \in 1 .. Len(listed) : listed[k] \in mine
            /\ \A j, k \in 1 .. Len(listed) :
                  j < k => repo.rows[listed[j]][1].created_at
                             >= repo.rows[listed[k]][1].created_at
            /\ repo.offset >= Cardinality(mine) =>
                  \A i \in mine :
                      Cardinality({ k \in 1 .. Len(listed) : listed[k] = i }) = 1

\* the same for table analyses alone, where the unique constraint leaves no
\* two records of a user with the same creation time
AnalysesPagination == repo.table = "analyses" => C29_StablePagination

\* the trimmed text is within both length limits
TrimmedLengthOk(text) ==
    /\ MIN_DESCRIPTION_LENGTH <= text.stripped
    /\ text.stripped <= MAX_DESCRIPTION_LENGTH

(* C30: create succeeds, with a record in status pending, exactly when the *)
(* trimmed situation text has between 10 and 2000 characters, and fails    *)
(* with InvalidSituation otherwise: both limits apply to the trimmed       *)
(* length.                                                                 *)
C30_CreateByTrimmedLength ==
    /\ outcome[Session] # "none" =>
          IF TrimmedLengthOk(req[Session].situation)
          THEN /\ outcome[Session] = "created"
               /\ analysis[Session] # None
               /\ analysis[Session][1].status = "pending"
          ELSE /\ outcome[Session] = "InvalidSituation"
               /\ analysis[Session] = None
    /\ svc.pc = "done" =>
          IF TrimmedLengthOk(svc.text)
          THEN svc.result.kind = "returned" /\ svc.situation # None
          ELSE svc.result = [kind |-> "raised", error |-> "InvalidSituation"]

(* ---------------------------------------------------------------------- *)
(* Properties of AnalysisService.analyze_situation (SpecService)           *)
(* ---------------------------------------------------------------------- *)
\* the user exists, has completed onboarding and has the child
UserAccepted(user) ==
    user # None /\ user[1].onboarding_completed /\ user[1].has_child

\* nothing has been done for the request: no situation is held or saved, the
\* adapter was not called, no table row and no usage counter exists
NothingDone ==
    /\ svc.situation = None
    /\ svc.saved = None
    /\ svc.log = <<>>
    /\ svc.gw = NoGateway
    /\ db = [i \in Ids |-> None]
    /\ redis = NoCounters

(* C31: a request of an accepted user whose situation text is shorter than *)
(* 10 or longer than 2000 characters is rejected with InvalidSituation,    *)
(* and a request rejected so has created no state: nothing is saved, the   *)
(* gateway is not called and no usage counter changes.                     *)
C31_InvalidTextRejectedFirst ==
    /\ (/\ svc.pc # "idle"
        /\ UserAccepted(svc.user)
        /\ \/ svc.text.len < MIN_DESCRIPTION_LENGTH
           \/ svc.text.len > MAX_DESCRIPTION_LENGTH)
          => svc.result = [kind |-> "raised", error |-> "InvalidSituation"]
    /\ svc.result = [kind |-> "raised", error |-> "InvalidSituation"]
          => svc.pc = "done" /\ NothingDone

\* a text of 2001 characters has been rejected
C31_Witness ==
    /\ svc.pc = "done"
    /\ svc.result = [kind |-> "raised", error |-> "InvalidSituation"]
    /\ svc.text.len = MAX_DESCRIPTION_LENGTH + 1
    /\ NothingDone

(* C32: within one analyze_situation call the service calls the adapter    *)
(* once and saves at most once: once the adapter has returned or raised,   *)
(* no further attempt is made, a failed call ends the request, the         *)
(* situation is saved in one step only, and nothing follows the end of     *)
(* the request.                                                            *)
C32_NoOrchestratorRetry ==
    [][/\ svc.gw.kind # "none" => (svc'.gw = svc.gw /\ svc'.log = svc.log)
       /\ (svc.gw.kind \notin {"none", "returned"} /\ svc.pc # "done")
             => (svc'.pc = "done" /\ svc'.result.kind = "raised"
                     /\ svc'.saved = None)
       /\ svc.saved # svc'.saved
             => (svc.saved = None /\ svc.pc = "save" /\ svc'.pc = "done")
       /\ (svc.pc = "save" /\ svc'.pc = "done" /\ svc'.saved = None)
             => svc'.result.kind = "raised"
       /\ svc.pc = "done" => svc' = svc
      ]_vars

\* the adapter needed two attempts for its one call; the service has saved
\* the analysed situation and returned
C32_Witness ==
    /\ svc.pc = "done"
    /\ svc.result.kind = "returned"
    /\ svc.saved # None
    /\ svc.saved[1].analysis_result # None
    /\ CallsMade(svc.log) = 2
    /\ svc.n > 2

\* C33: no situation holds, and no stored situation carries, an analysis
\* result whose confidence is below 0 or above 1 (0..100 in hundredths); a
\* request whose adapter call returned such a confidence ends with
\* AnalysisFailed and nothing stored
C33_ConfidenceInUnitInterval ==
    /\ \A s \in {svc.situation, svc.saved} :
          (s # None /\ s[1].analysis_result # None)
             => LET c == s[1].analysis_result[1].confidence_score[1] IN
                c >= 0 /\ c <= 100
    /\ (/\ svc.pc = "done"
        /\ svc.gw.kind = "returned"
        /\ LET c == svc.gw.value.confidence_score[1] IN c < 0 \/ c > 100)
          => /\ svc.result = [kind |-> "raised", error |-> "AnalysisFailed"]
             /\ svc.saved = None
             /\ svc.situation[1].analysis_result = None

C33_Witness ==
    /\ svc.pc = "done"
    /\ svc.gw.kind = "returned"
    /\ svc.gw.value.confidence_score[1] > 100
    /\ svc.gw.value.emotional_tone[1] \in valid_tones
    /\ svc.result.error = "AnalysisFailed"

C33_WitnessNegative ==
    /\ svc.pc = "done"
    /\ svc.gw.kind = "returned"
    /\ svc.gw.value.confidence_score[1] < 0
    /\ svc.result.error = "AnalysisFailed"

(* C34: the adapter is called and the situation store is written only for  *)
(* a request whose user was found, has completed onboarding and owns the   *)
(* child; a request failing one of the three ends with UserNotFound        *)
(* (missing user or child) or OnboardingNotCompleted, with no adapter call *)
(* and no save.                                                            *)
C34_PreconditionsBeforeGatewayAndStore ==
    /\ (svc.log # <<>> \/ svc.gw # NoGateway \/ svc.saved # None
            \/ svc.pc \in {"attempt", "sleep", "apply", "save"})
          => /\ svc.user # None
             /\ svc.user[1].onboarding_completed
             /\ svc.user[1].has_child
    /\ (svc.pc # "idle" /\ svc.user = None)
          => /\ svc.result = [kind |-> "raised", error |-> "UserNotFound"]
             /\ svc.pc = "done" /\ NothingDone
    /\ (svc.pc # "idle" /\ svc.user # None
            /\ ~svc.user[1].onboarding_completed)
          => /\ svc.result = [kind |-> "raised",
                              error |-> "OnboardingNotCompleted"]
             /\ svc.pc = "done" /\ NothingDone
    /\ (svc.pc # "idle" /\ svc.user # None
            /\ svc.user[1].onboarding_completed /\ ~svc.user[1].has_child)
          => /\ svc.result = [kind |-> "raised", error |-> "UserNotFound"]
             /\ svc.pc = "done" /\ NothingDone

\* a request of a user who has not completed onboarding has been refused
\* although its text was acceptable
C34_Witness ==
    /\ svc.pc = "done"
    /\ svc.user # None
    /\ ~svc.user[1].onboarding_completed
    /\ svc.text.len >= MIN_DESCRIPTION_LENGTH
    /\ svc.text.len <= MAX_DESCRIPTION_LENGTH
    /\ svc.result.error = "OnboardingNotCompleted"
    /\ svc.n > 0

(* C35: the analysis result of a Situation is set at most once: a call of  *)
(* apply_analysis on a situation that holds a result raises                *)
(* InvalidSituation and leaves the result, analyzed_at and the pending     *)
(* events as they were. (SpecSituation)                                    *)
C35_AnalysisSetOnce ==
    [][(svc.situation[1].analysis_result # None)
         => /\ svc'.situation[1].analysis_result
                  = svc.situation[1].analysis_result
            /\ svc'.situation[1].analyzed_at = svc.situation[1].analyzed_at
            /\ (ncall' # ncall /\ svc'.result.kind = "raised")
                  => /\ svc'.result.error = "InvalidSituation"
                     /\ svc'.situation = svc.situation
            /\ (ncall' # ncall /\ svc'.result.kind # "raised")
                  => svc'.situation
                         = Some(collect_events(svc.situation[1]).situation)
      ]_vars

\* a second apply_analysis, later than the first and with the first one's
\* event still pending, has been refused
C35_Witness ==
    /\ svc.situation # None
    /\ svc.situation[1].analysis_result # None
    /\ svc.situation[1].analyzed_at # None
    /\ svc.situation[1].analyzed_at[1] < now
    /\ Len(svc.situation[1].events) = 1
    /\ svc.result = [kind |-> "raised", error |-> "InvalidSituation"]
    /\ ncall = 2

C37_OnlyFourFieldsRequired ==
    parsed.done =>
        \A c \in Contents :
            (IsWrapped(parsed.response, c) /\ ~LacksText(c)) =>
                /\ ~parsed.result.raised
                /\ parsed.result.value # FallbackResponse
                /\ parsed.result.value.hidden_meaning = c.hidden_meaning
                /\ parsed.result.value.immediate_actions = c.immediate_actions
                /\ parsed.result.value.long_term_recommendations
                      = c.long_term_recommendations
                /\ parsed.result.value.what_not_to_do = c.what_not_to_do

\* the same for the objects that have an emotional_tone: the absence of
\* confidence_score alone never leads to the fallback
C37_ConfidenceOptional ==
    parsed.done =>
        \A c \in Contents :
            (/\ IsWrapped(parsed.response, c)
             /\ ~LacksText(c)
             /\ c.emotional_tone # None) =>
                parsed.result.value # FallbackResponse

(* C39: for every retry_attempts >= 0 the adapter call, once over, has     *)
(* either returned a result dictionary or raised; it never returns without *)
(* a result. (SpecService)                                                 *)
C39_ReturnsOrRaises ==
    svc.pc \in {"apply", "save", "done"} /\ svc.gw # NoGateway
        => svc.gw.kind \in {"returned", "raised"}

\* the same for retry_attempts >= 1 only
C39_ReturnsOrRaisesWithAttempts ==
    (svc.pc \in {"apply", "save", "done"} /\ svc.gw # NoGateway /\ svc.n >= 1)
        => svc.gw.kind \in {"returned", "raised"}

(* C38: a record saved as completed is never afterwards saved or handed    *)
(* back as failed: in every step the record of a request that is completed *)
(* keeps its status, recommendation and completion time, the row its       *)
(* session holds as completed is not rewritten with another status, and a  *)
(* committed completed row does not change; this includes the steps in     *)
(* which increment_usage fails after the save. (SpecCounterFault)          *)
C38_CompletedStaysCompleted ==
    /\ [](\A w \in Workers :
            Includes(trace[w], "incrementUsageFailed")
               => /\ analysis[w] # None
                  /\ analysis[w][1].status = "completed")
    /\ [][/\ \A w \in Workers :
              /\ (/\ analysis[w] # None
                  /\ analysis[w][1].status = "completed"
                  /\ req'[w] = req[w])
                    => analysis'[w] = analysis[w]
              /\ (/\ sess[w] # None
                  /\ sess[w][1].status = "completed"
                  /\ sess'[w] # None)
                    => sess'[w] = sess[w]
           /\ \A i \in Ids :
                (db[i] # None /\ db[i][1].status = "completed")
                    => db'[i] = db[i]
          ]_vars

\* the row a session held as completed has been saved again as failed, its
\* recommendation columns still filled, and the request raised AnalysisFailed
C38_CompletedRowRewritten ==
    \E w \in Workers :
        /\ Includes(trace[w], "complete")
        /\ Includes(trace[w], "incrementUsageFailed")
        /\ outcome[w] = "AnalysisFailed"
        /\ sess[w] # None
        /\ sess[w][1].status = "failed"
        /\ sess[w][1].hidden_meaning # None
        /\ sess[w][1].error_message = Some("StoreUnavailable")

(* C40: in every state of a User reached by calls of add_child,            *)
(* remove_child, complete_onboarding, deactivate and activate, a user      *)
(* whose onboarding is completed has at least one child. (SpecUser)        *)
C40_OnboardedHasChild ==
    record[1].onboarding_completed => Len(record[1].children) >= 1

\* complete_onboarding itself succeeds only for a user with a child, and
\* only the removal of a child takes the last child of an onboarded user
C40_OnlyRemovalBreaksIt ==
    [][/\ (~record[1].onboarding_completed /\ record'[1].onboarding_completed)
            => (record[1].children # <<>>
                   /\ record'[1].children = record[1].children)
       /\ (C40_OnboardedHasChild /\ ~C40_OnboardedHasChild')
            => lastCall'.op = "remove_child"
      ]_vars
====
